---- MODULE Spec2Model ----
(***************************************************************************)
(* Model of the corpus-to-batch streaming layer (data_utils.py) and of the *)
(* training driver's control flow (train.py).                              *)
(*                                                                         *)
(* Tensors are sequences.  A 1-d LongTensor of tokens is a sequence of     *)
(* integers; a 2-d tensor of shape [rows, bsz] is a sequence of rows, each *)
(* a sequence of bsz integers.  Python indices are 0-based and slices are  *)
(* half-open; Slice below is Python's a[lo:hi] for 0 <= lo.                *)
(*                                                                         *)
(* The batchers only copy tokens, they never branch on a token's value, so *)
(* streams carry pairwise distinct tokens: a token names the place it came *)
(* from.                                                                   *)
(***************************************************************************)
EXTENDS Integers, Sequences, FiniteSets, TLC

VARIABLES ck, di, ob, sb, mf, dr

vars == <<ck, di, ob, sb, mf, dr>>

----------------------------------------------------------------------------
(* Python helpers *)

Min(x, y) == IF x <= y THEN x ELSE y

Max(x, y) == IF x >= y THEN x ELSE y

\* a[lo:hi] with 0 <= lo: the elements at 0-based indices lo .. min(hi, len)-1
Slice(a, lo, hi) == SubSeq(a, lo + 1, Min(hi, Len(a)))

\* a[lo:]
SliceFrom(a, lo) == SubSeq(a, lo + 1, Len(a))

\* range(lo, hi) as a sequence
Range(lo, hi) == [j \in 1..Max(hi - lo, 0) |-> lo + j - 1]

RECURSIVE Concat(_)
\* the concatenation of a sequence of sequences
Concat(ss) == IF Len(ss) = 0 THEN <<>> ELSE Head(ss) \o Concat(Tail(ss))

IsPrefix(s, t) == Len(s) <= Len(t) /\ SubSeq(t, 1, Len(s)) = s

\* the value a sub-model's variable holds while another sub-model runs
Off == [pc |-> "off"]

----------------------------------------------------------------------------
(* chunk: data_utils.py 398-404 *)

\* longest sequence handed to chunk
MaxChunkLen == 12

\* largest partition count
MaxChunkN == 5

\* a plausible slip: n-1 chunks of size k, the last bucket taking the remainder
chunk_last_takes_rest(a, n) ==
    LET k == Len(a) \div n
    IN  [i \in 1..n |-> IF i < n THEN Slice(a, (i - 1) * k, i * k)
                                 ELSE SliceFrom(a, (n - 1) * k)]

\* a plausible slip: the remainder goes, one element each, to the last m
\* chunks instead of the first m
chunk_remainder_to_last_chunks(a, n) ==
    LET k == Len(a) \div n
        m == Len(a) % n
    IN  [i \in 1..n |-> Slice(a, (i - 1) * k + Max(0, i - 1 - (n - m)),
                                 i * k + Max(0, i - (n - m)))]

\* k, m = divmod(len(a), n)
\* (a[i*k + min(i, m) : (i+1)*k + min(i+1, m)] for i in range(n))
chunk(a, n) ==
    LET k == Len(a) \div n
        m == Len(a) % n
    IN  [i \in 1..n |-> Slice(a, (i - 1) * k + Min(i - 1, m), i * k + Min(i, m))]

ChunkInit ==
    /\ \E L \in 0..MaxChunkLen, n \in 1..MaxChunkN :
          ck = [pc |-> "call", a |-> Range(1, L + 1), n |-> n, out |-> <<>>]
    /\ di = Off /\ ob = Off /\ sb = Off /\ mf = Off /\ dr = Off

\* list(chunk(a, n))
ChunkCall ==
    /\ ck.pc = "call"
    /\ ck' = [ck EXCEPT !.pc = "done", !.out = chunk(ck.a, ck.n)]
    /\ UNCHANGED <<di, ob, sb, mf, dr>>

ChunkNext == ChunkCall

SpecChunk == ChunkInit /\ [][ChunkNext]_vars

----------------------------------------------------------------------------
(* LMOrderedIterator: data_utils.py 16-65 *)

\* longest flat stream
MaxStreamLen == 8

\* largest batch width bsz
MaxBsz == 2

\* largest segment length bptt
MaxBptt == 2

\* largest extended-context length ext_len
MaxExtLen == 2

\* largest offset handed to the constructor
MaxStartOffset == 3

\* passes a batcher object is iterated for
MaxPasses == 2

\* the two batcher objects of a resume: the original and the one rebuilt
\* from the original's recorded cursor
Batchers == {"orig", "fresh"}

\* tensor.view(rows, -1) of a 1-d tensor whose length rows divides
View(a, rows) ==
    LET w == Len(a) \div rows
    IN  [r \in 1..rows |-> SubSeq(a, (r - 1) * w + 1, r * w)]

\* matrix.t() of a matrix with at least one row
Transpose(m) ==
    [t \in 1..Len(m[1]) |-> [r \in 1..Len(m) |-> m[r][t]]]

\* data.size(0) // bsz
NStep(stream, bsz) == Len(stream) \div bsz

\* a plausible slip: the stream is laid out round-robin, lane i taking every
\* bsz-th token
OrderedData_round_robin(stream, bsz) ==
    LET n == NStep(stream, bsz)
    IN  [t \in 1..n |-> [lane \in 1..bsz |-> stream[(t - 1) * bsz + lane]]]

\* a plausible slip: the tokens that do not fit are trimmed off the front of
\* the stream instead of its end
OrderedData_front_trimmed(stream, bsz) ==
    Transpose(View(SliceFrom(stream, Len(stream) % bsz), bsz))

\* data.narrow(0, 0, n_step * bsz).view(bsz, -1).t().contiguous()
OrderedData(stream, bsz) ==
    Transpose(View(Slice(stream, 0, NStep(stream, bsz) * bsz), bsz))

\* a plausible slip: the target is not shifted
get_batch_unshifted(data, bptt, ext_len, i) ==
    LET seq_len == Min(bptt, Len(data) - 1 - i)
    IN  [data    |-> Slice(data, Max(0, i - ext_len), i + seq_len),
         target  |-> Slice(data, i, i + seq_len),
         seq_len |-> seq_len]

\* a plausible slip: the last batch's length is not cut to the rows that remain
get_batch_length_not_cut(data, bptt, ext_len, i) ==
    [data    |-> Slice(data, Max(0, i - ext_len), i + bptt),
     target  |-> Slice(data, i + 1, i + 1 + bptt),
     seq_len |-> bptt]

\* a plausible slip: the input starts at i, without the extended context
get_batch_without_context(data, bptt, ext_len, i) ==
    LET seq_len == Min(bptt, Len(data) - 1 - i)
    IN  [data    |-> Slice(data, i, i + seq_len),
         target  |-> Slice(data, i + 1, i + 1 + seq_len),
         seq_len |-> seq_len]

\* LMOrderedIterator.get_batch(i)
get_batch(data, bptt, ext_len, i) ==
    LET seq_len == Min(bptt, Len(data) - 1 - i)
        end_idx == i + seq_len
        beg_idx == Max(0, i - ext_len)
    IN  [data    |-> Slice(data, beg_idx, end_idx),
         target  |-> Slice(data, i + 1, i + 1 + seq_len),
         seq_len |-> seq_len]

\* a batcher object that does not exist (yet)
NoBatcher == [pc |-> "none"]

\* LMOrderedIterator.__init__: view(bsz, -1) of an empty tensor is an error
LMOrderedIterator_init(stream, bsz, bptt, offset, ext_len) ==
    IF NStep(stream, bsz) = 0
    THEN [pc |-> "RuntimeError"]
    ELSE [pc      |-> "new",
          offset  |-> offset,
          bsz     |-> bsz,
          bptt    |-> bptt,
          ext_len |-> ext_len,
          n_step  |-> NStep(stream, bsz),
          data    |-> OrderedData(stream, bsz),
          i       |-> 0,       \* the generator's loop variable
          start   |-> offset,  \* the offset the current pass was started with
          passes  |-> 0,       \* passes started
          out     |-> <<>>]    \* the batches the current pass has yielded

\* the 100-token stream of the example, bsz 10, bptt 100, ext_len 0
ExampleOrdered == [L |-> 100, bsz |-> 10, bptt |-> 100, ext_len |-> 0, offset |-> 0]

\* the constructor calls: every call within the bounds, and the example
OrderedCalls ==
    [L : 1..MaxStreamLen, bsz : 1..MaxBsz, bptt : 1..MaxBptt,
     ext_len : 0..MaxExtLen, offset : 0..MaxStartOffset] \cup {ExampleOrdered}

OrderedInit ==
    /\ \E c \in OrderedCalls :
          ob = [stream |-> Range(1, c.L + 1),
                it     |-> [b \in Batchers |->
                              IF b = "orig"
                              THEN LMOrderedIterator_init(Range(1, c.L + 1), c.bsz, c.bptt,
                                                          c.offset, c.ext_len)
                              ELSE NoBatcher],
                mark   |-> 0]
    /\ ck = Off /\ di = Off /\ sb = Off /\ mf = Off /\ dr = Off

\* the batchers of a resume are independent objects; the rebuilt one is
\* stepped once the original has ended its pass
OrdTurn(b) == b = "fresh" => ob.it["orig"].pc = "done"

\* iter(batcher): a generator is created; its body starts at the wrap-around
OrdIter(b) ==
    /\ ob # Off
    /\ OrdTurn(b)
    /\ ob.it[b].pc \in {"new", "done"}
    /\ ob.it[b].passes < MaxPasses
    \* an original whose cursor has been recorded is not iterated a second time
    /\ ob.it[b].pc = "done" => b = "orig" /\ ob.it["fresh"].pc = "none"
    /\ ob' = [ob EXCEPT !.it[b].pc = "wrap",
                        !.it[b].start = ob.it[b].offset,
                        !.it[b].passes = @ + 1,
                        !.it[b].out = <<>>]
    /\ UNCHANGED <<ck, di, sb, mf, dr>>

\* a plausible slip: an offset past the end is reset to the start of the stream
OrdWrap_reset_to_start(b) ==
    /\ ob # Off
    /\ OrdTurn(b)
    /\ ob.it[b].pc = "wrap"
    /\ ob.it[b].offset >= Len(ob.it[b].data) - 1
    /\ ob' = [ob EXCEPT !.it[b].offset = 0]
    /\ UNCHANGED <<ck, di, sb, mf, dr>>

\* while self.offset >= self.data.size(0) - 1: self.offset -= self.data.size(0) - 1
OrdWrap(b) ==
    /\ ob # Off
    /\ OrdTurn(b)
    /\ ob.it[b].pc = "wrap"
    /\ ob.it[b].offset >= Len(ob.it[b].data) - 1
    /\ ob' = [ob EXCEPT !.it[b].offset = @ - (Len(ob.it[b].data) - 1)]
    /\ UNCHANGED <<ck, di, sb, mf, dr>>

\* for i in range(self.offset, self.data.size(0) - 1, self.bptt): the range is
\* built once, from the wrapped offset
OrdRange(b) ==
    /\ ob # Off
    /\ OrdTurn(b)
    /\ ob.it[b].pc = "wrap"
    /\ ob.it[b].offset < Len(ob.it[b].data) - 1
    /\ ob' = [ob EXCEPT !.it[b].pc = "loop", !.it[b].i = ob.it[b].offset]
    /\ UNCHANGED <<ck, di, sb, mf, dr>>

\* a plausible slip: the batch is yielded before the cursor is moved past it
OrdYield_cursor_not_advanced(b) ==
    /\ ob # Off
    /\ OrdTurn(b)
    /\ ob.it[b].pc = "loop"
    /\ ob.it[b].i < Len(ob.it[b].data) - 1
    /\ ob' = [ob EXCEPT !.it[b].pc = "yield",
                        !.it[b].offset = ob.it[b].i,
                        !.it[b].out = Append(@, get_batch(ob.it[b].data, ob.it[b].bptt,
                                                          ob.it[b].ext_len, ob.it[b].i))]
    /\ UNCHANGED <<ck, di, sb, mf, dr>>

\* a plausible slip: the cursor is moved by the length of the batch, which is
\* shorter than bptt for the last batch of a pass
OrdYield_cursor_by_length(b) ==
    /\ ob # Off
    /\ OrdTurn(b)
    /\ ob.it[b].pc = "loop"
    /\ ob.it[b].i < Len(ob.it[b].data) - 1
    /\ ob' = [ob EXCEPT !.it[b].pc = "yield",
                        !.it[b].offset = ob.it[b].i + Min(ob.it[b].bptt,
                                                          Len(ob.it[b].data) - 1 - ob.it[b].i),
                        !.it[b].out = Append(@, get_batch(ob.it[b].data, ob.it[b].bptt,
                                                          ob.it[b].ext_len, ob.it[b].i))]
    /\ UNCHANGED <<ck, di, sb, mf, dr>>

\* self.offset = i + self.bptt; yield self.get_batch(i)
OrdYield(b) ==
    /\ ob # Off
    /\ OrdTurn(b)
    /\ ob.it[b].pc = "loop"
    /\ ob.it[b].i < Len(ob.it[b].data) - 1
    /\ ob' = [ob EXCEPT !.it[b].pc = "yield",
                        !.it[b].offset = ob.it[b].i + ob.it[b].bptt,
                        !.it[b].out = Append(@, get_batch(ob.it[b].data, ob.it[b].bptt,
                                                          ob.it[b].ext_len, ob.it[b].i))]
    /\ UNCHANGED <<ck, di, sb, mf, dr>>

\* the consumer asks for the next batch: the range advances
OrdAdvance(b) ==
    /\ ob # Off
    /\ OrdTurn(b)
    /\ ob.it[b].pc = "yield"
    /\ ob' = [ob EXCEPT !.it[b].pc = "loop", !.it[b].i = @ + ob.it[b].bptt]
    /\ UNCHANGED <<ck, di, sb, mf, dr>>

\* the range is exhausted: the generator ends
OrdEnd(b) ==
    /\ ob # Off
    /\ OrdTurn(b)
    /\ ob.it[b].pc = "loop"
    /\ ob.it[b].i >= Len(ob.it[b].data) - 1
    /\ ob' = [ob EXCEPT !.it[b].pc = "done"]
    /\ UNCHANGED <<ck, di, sb, mf, dr>>

\* the consumer records the cursor of the original, which has not been
\* iterated yet or is suspended at a yield, and builds a fresh batcher on the
\* same stream, bsz, bptt and ext_len with that offset
OrdResume ==
    /\ ob # Off
    /\ ob.it["orig"].pc \in {"new", "yield"}
    /\ ob.it["orig"].passes <= 1
    /\ ob.it["fresh"].pc = "none"
    /\ ob' = [ob EXCEPT !.it["fresh"] =
                            LMOrderedIterator_init(ob.stream, ob.it["orig"].bsz,
                                                   ob.it["orig"].bptt, ob.it["orig"].offset,
                                                   ob.it["orig"].ext_len),
                        !.mark = Len(ob.it["orig"].out)]
    /\ UNCHANGED <<ck, di, sb, mf, dr>>

OrderedNext ==
    \/ \E b \in Batchers : OrdIter(b)
    \/ \E b \in Batchers : OrdWrap(b)
    \/ \E b \in Batchers : OrdRange(b)
    \/ \E b \in Batchers : OrdYield(b)
    \/ \E b \in Batchers : OrdAdvance(b)
    \/ \E b \in Batchers : OrdEnd(b)
    \/ OrdResume

SpecOrdered == OrderedInit /\ [][OrderedNext]_vars

\* the tokens of one lane of a matrix, top to bottom
Lane(m, lane) == [t \in 1..Len(m) |-> m[t][lane]]

\* the targets a pass has yielded so far, per lane
LaneTargets(out, lane) == Concat([k \in 1..Len(out) |-> Lane(out[k].target, lane)])

\* the batch's target is its input shifted by one position: target row t is
\* the input row that follows the one aligned with t (the input's first
\* Len(data) - seq_len rows are extended context)
ShiftedByOne(batch, lane) ==
    LET ext == Len(batch.data) - batch.seq_len
    IN  \A t \in 1..(batch.seq_len - 1) :
            batch.target[t][lane] = batch.data[ext + t + 1][lane]

\* C2: with ext_len = 0, one full pass started at offset 0 yields, for every
\* lane, targets whose concatenation is the lane's tokens from position 1 to
\* the end: while the pass runs the targets yielded so far are the lane's
\* tokens 1.. in order without gap or repeat, and at its end none is missing.
C2_OrderedTargetsCoverLane ==
    \A b \in Batchers :
        (ob # Off /\ ob.it[b].pc \in {"loop", "yield", "done"}
                  /\ ob.it[b].start = 0 /\ ob.it[b].ext_len = 0) =>
            \A lane \in 1..ob.it[b].bsz :
                LET want == Tail(Lane(ob.it[b].data, lane))
                    got  == LaneTargets(ob.it[b].out, lane)
                IN  /\ IsPrefix(got, want)
                    /\ ob.it[b].pc = "done" => got = want

\* a finished pass from offset 0 over two lanes, in several batches, the last
\* one short
C2_Witness ==
    /\ ob # Off
    /\ ob.it["orig"].pc = "done"
    /\ ob.it["orig"].start = 0
    /\ ob.it["orig"].ext_len = 0
    /\ ob.it["orig"].bsz = 2
    /\ Len(ob.it["orig"].out) >= 2
    /\ ob.it["orig"].out[Len(ob.it["orig"].out)].seq_len < ob.it["orig"].bptt

\* both batchers of a resume have ended their pass
OrdResumeDone ==
    /\ ob # Off
    /\ ob.it["orig"].pc = "done"
    /\ ob.it["fresh"].pc = "done"

\* the batches the original yielded after its cursor was recorded
OrdRemaining == SubSeq(ob.it["orig"].out, ob.mark + 1, Len(ob.it["orig"].out))

\* C3 as claimed: for every k, the fresh batcher built with the original's
\* recorded offset yields exactly the batches the original yields when it
\* continues.
C3_ResumeEveryK == OrdResumeDone => ob.it["fresh"].out = OrdRemaining

\* C3 amended: the fresh batcher yields exactly the original's remaining
\* batches for every k smaller than the number of batches of the original's
\* pass; recorded after the last batch of the pass, the original yields nothing
\* more while the fresh batcher wraps the offset around and yields a new pass.
C3_ResumeMidPass ==
    OrdResumeDone =>
        IF ob.mark < Len(ob.it["orig"].out)
        THEN ob.it["fresh"].out = OrdRemaining
        ELSE OrdRemaining = <<>> /\ ob.it["fresh"].out # <<>>

\* a cursor recorded in the middle of a pass (k >= 1, at least two batches
\* left), both batchers run to their end
C3_Witness ==
    /\ OrdResumeDone
    /\ ob.mark >= 1
    /\ Len(ob.it["orig"].out) >= ob.mark + 2
    /\ ob.it["orig"].ext_len > 0

----------------------------------------------------------------------------
(* LMShuffledIterator: data_utils.py 68-147 *)

\* most sentences in a sentence list
MaxSents == 2

\* longest sentence
MaxSentLen == 3

\* the padding value of fill_(-1)
Sentinel == -1

\* a cell of a tensor that was allocated or grown and not written yet
Uninit == "uninit"

\* the sentence list whose k-th sentence has lens[k] tokens, the tokens
\* numbered 1, 2, ... through the list
RECURSIVE Sentences(_, _)
Sentences(lens, first) ==
    IF Len(lens) = 0 THEN <<>>
    ELSE <<Range(first, first + Head(lens))>> \o Sentences(Tail(lens), first + Head(lens))

\* the sentence list [[1,2,3],[4,5],[6,7,8,9]]
ExampleSentences == Sentences(<<3, 2, 4>>, 1)

\* the sentence lists a batcher is built on: every list within the bounds, and
\* the example list
SentenceLists ==
    {Sentences(lens, 1) : lens \in UNION {[1..n -> 1..MaxSentLen] : n \in 0..MaxSents}}
        \cup {ExampleSentences}

\* a plausible slip: the sentences are permuted whatever the shuffle flag says
EpochIndices_always_permuted(n, shuffle) ==
    {p \in [1..n -> 1..n] : \A x, y \in 1..n : p[x] = p[y] => x = y}

\* np.random.permutation(n): any order; np.array(range(n)): the natural one
EpochIndices(n, shuffle) ==
    IF shuffle
    THEN {p \in [1..n -> 1..n] : \A x, y \in 1..n : p[x] = p[y] => x = y}
    ELSE {[x \in 1..n |-> x]}

\* torch.LongTensor(rows, bsz): allocated, not written
NewTensor(rows, bsz) == [t \in 1..rows |-> [lane \in 1..bsz |-> Uninit]]

\* m[lo:].fill_(v)
FillFrom(m, lo, v) ==
    [t \in 1..Len(m) |-> IF t > lo THEN [lane \in 1..Len(m[t]) |-> v] ELSE m[t]]

\* m[lo:lo+n, lane] = src[:n]   (lo 0-based, lane 1-based)
SetColumn(m, lo, n, lane, src) ==
    [t \in 1..Len(m) |->
        IF t > lo /\ t <= lo + n THEN [m[t] EXCEPT ![lane] = src[t - lo]] ELSE m[t]]

RECURSIVE BackwardSource(_, _, _)
\* the row a back-to-front copy data[:n] = data[-n:] reads for destination
\* row j, d = size - n rows ahead: a row already overwritten when d + j <= n
BackwardSource(j, d, n) == IF d + j > n THEN d + j ELSE BackwardSource(d + j, d, n)

\* data[:n_retain] = data[-n_retain:] (n_retain > 0): the copy between two
\* views of one storage.  Front to back it moves the last n rows to the top;
\* where the views overlap in part the order of the copy is not defined, and
\* back to front it reads rows it has already written.
RetainOutcomes(data, n) ==
    LET size == Len(data)
        d    == size - n
        fwd  == [t \in 1..size |-> IF t <= n THEN data[d + t] ELSE data[t]]
        bwd  == [t \in 1..size |-> IF t <= n THEN data[BackwardSource(t, d, n)]
                                   ELSE data[t]]
    IN  IF n = 0 THEN {data}
        ELSE IF d > 0 /\ d < n THEN {fwd, bwd}
        ELSE {fwd}

\* data.resize_(rows, bsz): the storage keeps its rows, new rows are not written
Resize(data, rows, bsz) ==
    [t \in 1..rows |-> IF t <= Len(data) THEN data[t] ELSE [lane \in 1..bsz |-> Uninit]]

ShuffledInit ==
    /\ \E data \in SentenceLists, bsz \in 1..MaxBsz, bptt \in 1..MaxBptt,
          ext_len \in 0..MaxExtLen, shuffle \in BOOLEAN :
          sb = [pc      |-> "new",
                data    |-> data,
                bsz     |-> bsz,
                bptt    |-> bptt,
                ext_len |-> ext_len,
                shuffle |-> shuffle]
    /\ ck = Off /\ di = Off /\ ob = Off /\ mf = Off /\ dr = Off

\* __iter__: get_sent_stream() and the set-up of stream_iterator (93-100)
ShIter ==
    /\ sb.pc = "new"
    /\ \E epoch_indices \in EpochIndices(Len(sb.data), sb.shuffle) :
          sb' = [pc            |-> "iter",
                 data          |-> sb.data,
                 bsz           |-> sb.bsz,
                 bptt          |-> sb.bptt,
                 ext_len       |-> sb.ext_len,
                 shuffle       |-> sb.shuffle,
                 epoch_indices |-> epoch_indices,
                 pos           |-> 0,            \* sentences taken from sent_stream
                 streams       |-> [lane \in 1..sb.bsz |-> <<>>],   \* None
                 buf           |-> NewTensor(sb.bptt, sb.bsz),      \* data
                 target        |-> NewTensor(sb.bptt, sb.bsz),
                 n_retain      |-> 0,
                 n_filled      |-> 0,
                 valid_batch   |-> TRUE,
                 took          |-> [lane \in 1..sb.bsz |-> <<>>],   \* sentences a lane took
                 out           |-> <<>>]         \* the batches yielded
    /\ UNCHANGED <<ck, di, ob, mf, dr>>

\* the carry-over run when the generator is resumed after a yield (137-140):
\* n_retain = min(data.size(0), ext_len); data[:n_retain] = data[-n_retain:];
\* data.resize_(n_retain + bptt, bsz)
ShCarry(s) ==
    IF s.pc # "yield" THEN {s}
    ELSE LET n_retain == Min(Len(s.buf), s.ext_len)
         IN  {[s EXCEPT !.n_retain = n_retain,
                        !.buf = Resize(kept, n_retain + s.bptt, s.bsz)] :
                 kept \in RetainOutcomes(s.buf, n_retain)}

RECURSIVE ShFillLane(_, _)
\* while n_filled < self.bptt (113-124) for lane i; StopIteration from
\* next(sent_stream) sets valid_batch = False
ShFillLane(s, i) ==
    IF s.n_filled >= s.bptt THEN s
    ELSE LET pull == Len(s.streams[i]) <= 1
         IN  IF pull /\ s.pos >= Len(s.epoch_indices)
             THEN [s EXCEPT !.valid_batch = FALSE]
             ELSE LET stream == IF pull THEN s.data[s.epoch_indices[s.pos + 1]]
                                ELSE s.streams[i]
                      n_new  == Min(Len(stream) - 1, s.bptt - s.n_filled)
                  IN  ShFillLane(
                        [s EXCEPT
                           !.pos = IF pull THEN @ + 1 ELSE @,
                           !.took[i] = IF pull THEN Append(@, s.epoch_indices[s.pos + 1])
                                       ELSE @,
                           !.buf = SetColumn(@, s.n_retain + s.n_filled, n_new, i, stream),
                           !.target = SetColumn(@, s.n_filled, n_new, i, Tail(stream)),
                           !.streams[i] = SliceFrom(stream, n_new),
                           !.n_filled = @ + n_new], i)

RECURSIVE ShFillLanes(_, _)
\* for i in range(self.bsz) (110-127), left at the first StopIteration
ShFillLanes(s, i) ==
    IF i > s.bsz THEN s
    ELSE LET r == ShFillLane([s EXCEPT !.n_filled = 0], i)
         IN  IF r.valid_batch THEN ShFillLanes(r, i + 1) ELSE r

\* one round of while True up to its yield or return (105-130)
ShAssemble(s) ==
    ShFillLanes([s EXCEPT !.buf = FillFrom(s.buf, s.n_retain, Sentinel),
                          !.target = FillFrom(s.target, 0, Sentinel),
                          !.valid_batch = TRUE], 1)

\* a plausible slip: the batch under assembly is yielded although the
\* sentence source ran out while it was filled
ShNext_partial_batch_yielded ==
    /\ sb.pc \in {"iter", "yield"}
    /\ \E c \in ShCarry(sb) :
          LET r == ShAssemble(c)
          IN  sb' = [r EXCEPT !.pc = "yield",
                              !.out = Append(@, [data    |-> r.buf,
                                                 target  |-> r.target,
                                                 seq_len |-> r.bptt])]
    /\ UNCHANGED <<ck, di, ob, mf, dr>>

\* next(generator) that ends in yield data, target, self.bptt
ShNext ==
    /\ sb.pc \in {"iter", "yield"}
    /\ \E c \in ShCarry(sb) :
          LET r == ShAssemble(c)
          IN  /\ r.valid_batch
              /\ sb' = [r EXCEPT !.pc = "yield",
                                 !.out = Append(@, [data    |-> r.buf,
                                                    target  |-> r.target,
                                                    seq_len |-> r.bptt])]
    /\ UNCHANGED <<ck, di, ob, mf, dr>>

\* next(generator) that ends in return: the sentence source ran out
ShStop ==
    /\ sb.pc \in {"iter", "yield"}
    /\ \E c \in ShCarry(sb) :
          LET r == ShAssemble(c)
          IN  /\ ~r.valid_batch
              /\ sb' = [r EXCEPT !.pc = "done"]
    /\ UNCHANGED <<ck, di, ob, mf, dr>>

ShuffledNext ==
    \/ ShIter
    \/ ShNext
    \/ ShStop

SpecShuffled == ShuffledInit /\ [][ShuffledNext]_vars

----------------------------------------------------------------------------
(* LMMultiFileIterator: data_utils.py 150-234 *)

\* most files in the path list
MaxFiles == 2

\* longest file, in tokens
MaxFileLen == 6

\* ext_len=None, the constructor's default, told apart from every length
None == -1

\* the values the constructor's ext_len argument takes: None or a length
ExtLenArgs == {None} \cup (0..MaxExtLen)

\* the token sequences vocab.encode_file gives for the paths: the path lists
\* within the bounds, the tokens numbered through the files
FileLists ==
    {Sentences(lens, 1) : lens \in UNION {[1..n -> 1..MaxFileLen] : n \in 0..MaxFiles}}

\* a plausible slip: the constructor accepts any extended-context length
LMMultiFileIterator_init_unchecked(paths, bsz, bptt, ext_len, shuffle) ==
    [pc             |-> "new",
     paths          |-> paths,
     bsz            |-> bsz,
     bptt           |-> bptt,
     ext_len        |-> IF ext_len # None THEN ext_len ELSE 0,
     shuffle        |-> shuffle,
     file_offset    |-> 0,
     stream_offsets |-> [batch_pos \in 1..bsz |-> 0],
     out            |-> <<>>]

\* LMMultiFileIterator.__init__; assert self.ext_len == 0
LMMultiFileIterator_init(paths, bsz, bptt, ext_len, shuffle) ==
    IF (IF ext_len # None THEN ext_len ELSE 0) # 0
    THEN [pc |-> "AssertionError"]
    ELSE [pc             |-> "new",
          paths          |-> paths,
          bsz            |-> bsz,
          bptt           |-> bptt,
          ext_len        |-> 0,
          shuffle        |-> shuffle,
          file_offset    |-> 0,
          stream_offsets |-> [batch_pos \in 1..bsz |-> 0],
          out            |-> <<>>]     \* the batches yielded

MultiInit ==
    /\ \E paths \in FileLists, bsz \in 1..MaxBsz, bptt \in 1..MaxBptt,
          ext_len \in ExtLenArgs, shuffle \in BOOLEAN :
          mf = [args |-> [paths |-> paths, bsz |-> bsz, bptt |-> bptt,
                          ext_len |-> ext_len, shuffle |-> shuffle],
                it   |-> [b \in Batchers |-> IF b = "orig" THEN [pc |-> "args"]
                                             ELSE NoBatcher],
                mark |-> 0]
    /\ ck = Off /\ di = Off /\ ob = Off /\ sb = Off /\ dr = Off

\* LMMultiFileIterator(paths, vocab, bsz, bptt, ext_len=..., shuffle=...)
MfConstruct ==
    /\ mf # Off
    /\ mf.it["orig"].pc = "args"
    /\ mf' = [mf EXCEPT !.it["orig"] =
                  LMMultiFileIterator_init(mf.args.paths, mf.args.bsz, mf.args.bptt,
                                           mf.args.ext_len, mf.args.shuffle)]
    /\ UNCHANGED <<ck, di, ob, sb, dr>>

\* the rebuilt batcher is stepped once the original has ended
MfTurn(b) == b = "fresh" => mf.it["orig"].pc \in {"done", "RuntimeError"}

\* sents.split(size): pieces of size tokens, the last one shorter
SplitPieces(sents, size) ==
    [j \in 1..((Len(sents) + size - 1) \div size) |-> Slice(sents, (j - 1) * size, j * size)]

\* a plausible slip: a file's lanes start at the front of their pieces and the
\* stream offsets are left out
MfOpenFile_offsets_ignored(s, file_num) ==
    LET sents  == s.paths[file_num + 1]
        pieces == SplitPieces(sents, Len(sents) \div s.bsz)
    IN  [s EXCEPT !.file_offset = file_num,
                  !.file_num = file_num,
                  !.streams = [batch_pos \in 1..s.bsz |-> pieces[batch_pos]],
                  !.buf = NewTensor(s.bptt, s.bsz),
                  !.target = NewTensor(s.bptt, s.bsz),
                  !.n_retain = 0]

\* a plausible slip: the file is split into bsz pieces as chunk splits a list
MfOpenFile_chunked(s, file_num) ==
    LET sents  == s.paths[file_num + 1]
        pieces == chunk(sents, s.bsz)
    IN  [s EXCEPT !.file_offset = file_num,
                  !.file_num = file_num,
                  !.streams = [batch_pos \in 1..s.bsz |->
                                  SliceFrom(pieces[batch_pos], s.stream_offsets[batch_pos])],
                  !.buf = NewTensor(s.bptt, s.bsz),
                  !.target = NewTensor(s.bptt, s.bsz),
                  !.n_retain = 0]

\* the body of for file_num in range(...) up to the try (176-194) for a file
\* that splits into at least bsz pieces
MfOpenFile(s, file_num) ==
    LET sents  == s.paths[file_num + 1]
        pieces == SplitPieces(sents, Len(sents) \div s.bsz)
    IN  [s EXCEPT !.file_offset = file_num,
                  !.file_num = file_num,
                  !.streams = [batch_pos \in 1..s.bsz |->
                                  SliceFrom(pieces[batch_pos], s.stream_offsets[batch_pos])],
                  !.buf = NewTensor(s.bptt, s.bsz),
                  !.target = NewTensor(s.bptt, s.bsz),
                  !.n_retain = 0]

RECURSIVE MfFillLane(_, _)
\* while n_filled < self.bptt (208-222) for lane batch_pos; raise StopIteration
\* when the lane's stream has at most one token left
MfFillLane(s, batch_pos) ==
    IF s.n_filled >= s.bptt THEN s
    ELSE IF Len(s.streams[batch_pos]) <= 1 THEN [s EXCEPT !.stop = TRUE]
    ELSE LET stream == s.streams[batch_pos]
             n_new  == Min(Len(stream) - 1, s.bptt - s.n_filled)
         IN  MfFillLane(
               [s EXCEPT
                  !.buf = SetColumn(@, s.n_retain + s.n_filled, n_new, batch_pos, stream),
                  !.target = SetColumn(@, s.n_filled, n_new, batch_pos, Tail(stream)),
                  !.streams[batch_pos] = SliceFrom(stream, n_new),
                  !.stream_offsets[batch_pos] = @ + n_new,
                  !.n_filled = @ + n_new], batch_pos)

RECURSIVE MfFillLanes(_, _)
\* for batch_pos in range(self.bsz) (204-222), left at StopIteration
MfFillLanes(s, batch_pos) ==
    IF batch_pos > s.bsz THEN s
    ELSE LET r == MfFillLane([s EXCEPT !.n_filled = 0], batch_pos)
         IN  IF r.stop THEN r ELSE MfFillLanes(r, batch_pos + 1)

\* a plausible slip: the targets are the inputs, not the tokens after them
MfAssemble_targets_unshifted(s) ==
    LET r == MfFillLanes([s EXCEPT !.buf = FillFrom(s.buf, s.n_retain, Sentinel),
                                   !.target = FillFrom(s.target, 0, Sentinel),
                                   !.stop = FALSE], 1)
    IN  [r EXCEPT !.target = SubSeq(r.buf, r.n_retain + 1, Len(r.buf))]

\* one round of while True up to its yield or StopIteration (200-226)
MfAssemble(s) ==
    MfFillLanes([s EXCEPT !.buf = FillFrom(s.buf, s.n_retain, Sentinel),
                          !.target = FillFrom(s.target, 0, Sentinel),
                          !.stop = FALSE], 1)

\* a plausible slip: a batch whose assembly ended in StopIteration is yielded
\* as it stands, a short last batch
MfRun_partial_batch_yielded(s) ==
    LET r == MfAssemble(s)
    IN  [r EXCEPT !.pc = "yield",
                  !.out = Append(@, [data    |-> r.buf,
                                     target  |-> r.target,
                                     seq_len |-> r.bptt,
                                     file    |-> r.file_num])]

RECURSIVE MfRun(_)
\* the generator from the top of while True to its next yield (pc "yield"),
\* its end (pc "done") or the error of split(0) (pc "RuntimeError"):
\* StopIteration in a file goes on to the next file of the range
MfRun(s) ==
    LET r == MfAssemble(s)
    IN  IF ~r.stop
        THEN [r EXCEPT !.pc = "yield",
                       !.out = Append(@, [data    |-> r.buf,
                                          target  |-> r.target,
                                          seq_len |-> r.bptt,
                                          file    |-> r.file_num])]
        ELSE IF r.file_num + 1 >= Len(r.paths) THEN [r EXCEPT !.pc = "done"]
        ELSE IF Len(r.paths[r.file_num + 2]) \div r.bsz = 0
             THEN [r EXCEPT !.pc = "RuntimeError", !.file_offset = r.file_num + 1]
        ELSE MfRun(MfOpenFile(r, r.file_num + 1))

\* the carry-over run when the generator is resumed after a yield (228-231)
MfCarry(s) ==
    LET n_retain == Min(Len(s.buf), s.ext_len)
    IN  {[s EXCEPT !.n_retain = n_retain,
                   !.buf = Resize(kept, n_retain + s.bptt, s.bsz)] :
            kept \in RetainOutcomes(s.buf, n_retain)}

\* the generator's local state before its first file
MfGenerator(s) ==
    [pc |-> "iter", paths |-> s.paths, bsz |-> s.bsz, bptt |-> s.bptt,
     ext_len |-> s.ext_len, shuffle |-> s.shuffle, file_offset |-> s.file_offset,
     stream_offsets |-> s.stream_offsets, out |-> s.out,
     file_num |-> s.file_offset - 1, streams |-> <<>>, buf |-> <<>>, target |-> <<>>,
     n_retain |-> 0, n_filled |-> 0, stop |-> TRUE]

\* the first next() of iter(batcher) with shuffle off: for file_num in
\* range(self.file_offset, len(self.paths)), up to the first yield
MfFirst(b) ==
    /\ mf # Off
    /\ MfTurn(b)
    /\ mf.it[b].pc = "new"
    /\ ~mf.it[b].shuffle
    /\ LET g == MfGenerator(mf.it[b])
       IN  mf' = [mf EXCEPT !.it[b] =
                    IF g.file_offset >= Len(g.paths) THEN [g EXCEPT !.pc = "done"]
                    ELSE IF Len(g.paths[g.file_offset + 1]) \div g.bsz = 0
                         THEN [g EXCEPT !.pc = "RuntimeError"]
                    ELSE MfRun(MfOpenFile(g, g.file_offset))]
    /\ UNCHANGED <<ck, di, ob, sb, dr>>

\* a plausible slip: with shuffle on the paths are shuffled and the files
\* then read as with shuffle off
MfShuffle_then_read(b) ==
    /\ mf # Off
    /\ MfTurn(b)
    /\ mf.it[b].pc = "new"
    /\ mf.it[b].shuffle
    /\ \E p \in EpochIndices(Len(mf.it[b].paths), TRUE) :
          LET g == MfGenerator([mf.it[b] EXCEPT
                                   !.paths = [x \in 1..Len(p) |-> mf.it[b].paths[p[x]]]])
          IN  mf' = [mf EXCEPT !.it[b] =
                       IF g.file_offset >= Len(g.paths) THEN [g EXCEPT !.pc = "done"]
                       ELSE IF Len(g.paths[g.file_offset + 1]) \div g.bsz = 0
                            THEN [g EXCEPT !.pc = "RuntimeError"]
                       ELSE MfRun(MfOpenFile(g, g.file_offset))]
    /\ UNCHANGED <<ck, di, ob, sb, dr>>

\* the first next() with shuffle on (171-173): np.random.shuffle(self.paths);
\* assert False
MfShuffle(b) ==
    /\ mf # Off
    /\ MfTurn(b)
    /\ mf.it[b].pc = "new"
    /\ mf.it[b].shuffle
    /\ \E p \in EpochIndices(Len(mf.it[b].paths), TRUE) :
          mf' = [mf EXCEPT !.it[b].pc = "iter_AssertionError",
                           !.it[b].paths = [x \in 1..Len(p) |-> mf.it[b].paths[p[x]]]]
    /\ UNCHANGED <<ck, di, ob, sb, dr>>

\* a later next(): the carry-over, then on to the next yield or the end
MfNext(b) ==
    /\ mf # Off
    /\ MfTurn(b)
    /\ mf.it[b].pc = "yield"
    /\ \E c \in MfCarry(mf.it[b]) : mf' = [mf EXCEPT !.it[b] = MfRun(c)]
    /\ UNCHANGED <<ck, di, ob, sb, dr>>

\* the consumer persists file_offset and stream_offsets of the original,
\* suspended at a yield, and sets them on a fresh instance on the same paths,
\* bsz and bptt
MfResume ==
    /\ mf # Off
    /\ mf.it["orig"].pc = "yield"
    /\ mf.it["fresh"].pc = "none"
    /\ mf' = [mf EXCEPT
                !.it["fresh"] =
                    [LMMultiFileIterator_init(mf.args.paths, mf.args.bsz, mf.args.bptt,
                                              mf.args.ext_len, mf.args.shuffle)
                        EXCEPT !.file_offset = mf.it["orig"].file_offset,
                               !.stream_offsets = mf.it["orig"].stream_offsets],
                !.mark = Len(mf.it["orig"].out)]
    /\ UNCHANGED <<ck, di, ob, sb, dr>>

MultiNext ==
    \/ MfConstruct
    \/ \E b \in Batchers : MfFirst(b)
    \/ \E b \in Batchers : MfShuffle(b)
    \/ \E b \in Batchers : MfNext(b)
    \/ MfResume

SpecMulti == MultiInit /\ [][MultiNext]_vars

----------------------------------------------------------------------------
(* Corpus, get_lm_corpus and Corpus.get_dist_iterator: data_utils.py 237-392 *)

\* most files the wiki glob finds
MaxCorpusFiles == 3

\* longest flat training stream, in tokens
MaxTrainLen == 4

\* most workers
MaxRank == 2

\* sorted(file_paths)[42] and sorted(file_paths)[1337]
ValidIndex == 42
TestIndex == 1337

\* one dataset of each kind: a flat token stream, the two file lists
Datasets == {"wt103", "lm1b", "wiki"}

NoCache == [dataset |-> "none"]

\* the sequence 1..n: file paths in natural order, or a token stream
Natural(n) == [x \in 1..n |-> x]

\* the elements of a sequence
Elements(a) == {a[x] : x \in 1..Len(a)}

\* the elements of a set of numbers in ascending order
RECURSIVE Ascending(_)
Ascending(S) ==
    IF S = {} THEN <<>>
    ELSE LET lo == CHOOSE x \in S : \A y \in S : x <= y
         IN  <<lo>> \o Ascending(S \ {lo})

\* list(set(file_paths) - {valid_path, test_path}): the order in which a set
\* of strings is walked follows the process's string hashes, so each process
\* may get any order
TrainFileOrders(file_paths, held) ==
    LET rest == Ascending(Elements(file_paths) \ held)
    IN  {[x \in 1..Len(rest) |-> rest[p[x]]] : p \in EpochIndices(Len(rest), TRUE)}

\* the outcomes of Corpus(datadir, dataset, ...) (244-314): natsorted(None)
\* raises for every dataset but wiki; wiki asserts that the glob found files,
\* holds out its validation and test file and keeps the rest as train_files
CorpusOutcomes(dataset, test, n_files, n_train) ==
    IF dataset # "wiki" THEN {[pc |-> "TypeError"]}
    ELSE IF n_files = 0 THEN {[pc |-> "AssertionError"]}
    ELSE IF ~test /\ (n_files <= ValidIndex \/ n_files <= TestIndex)
         THEN {[pc |-> "IndexError"]}
    ELSE LET held == IF test THEN {n_files} ELSE {ValidIndex + 1, TestIndex + 1}
         IN  {[pc |-> "corpus", dataset |-> "wiki", train |-> <<>>,
               has_train_files |-> TRUE, train_files |-> order] :
                 order \in TrainFileOrders(Natural(n_files), held)}

\* a corpus as an earlier run left it in the cache file
CachedCorpus(dataset, n_files, n_train) ==
    [pc |-> "corpus", dataset |-> dataset,
     train |-> IF dataset = "wt103" THEN Natural(n_train)
               ELSE IF dataset = "lm1b" THEN Natural(n_files) ELSE <<>>,
     has_train_files |-> dataset = "wiki",
     train_files |-> IF dataset = "wiki" THEN Natural(n_files - 1) ELSE <<>>]

\* the cache file exists with incomplete content: created by the lock's
\* open, or truncated and partly written by torch.save
PartialCache == [dataset |-> "partial"]

\* no process holds the lock on the cache file
NoHolder == -1

\* the cache file as earlier runs in the data directory may have left it:
\* absent, or holding the corpus of some dataset
DistInit ==
    /\ \E dataset \in Datasets, test \in BOOLEAN, cached \in Datasets \cup {"none"},
          n_files \in 0..MaxCorpusFiles, n_train \in 0..MaxTrainLen,
          max_rank \in 1..MaxRank :
          /\ cached = "wiki" => n_files > 0
          /\ n_train > 0 => cached = "wt103"
          /\ test => dataset = "wiki"
          /\ di = [dataset  |-> dataset,
                   test     |-> test,
                   n_files  |-> n_files,
                   n_train  |-> n_train,
                   max_rank |-> max_rank,
                   cache    |-> IF cached # "none"
                                THEN CachedCorpus(cached, n_files, n_train)
                                ELSE NoCache,
                   lock     |-> NoHolder,
                   read     |-> {},      \* the workers that have read the cache file
                   wrote    |-> {},      \* the workers that have written it
                   worker   |-> [rank \in 0..(max_rank - 1) |-> [pc |-> "start"]]]
    /\ ck = Off /\ ob = Off /\ sb = Off /\ mf = Off /\ dr = Off

\* get_lm_corpus in the process of worker rank, the cache file found and
\* loaded (367-371); torch.load of an incomplete file raises
DistLoadCached(rank) ==
    /\ di # Off
    /\ di.worker[rank].pc = "start"
    /\ di.cache # NoCache /\ di.dataset # "wiki"
    /\ di' = [di EXCEPT !.worker[rank] = IF di.cache = PartialCache
                                         THEN [pc |-> "UnpicklingError"]
                                         ELSE di.cache,
                        !.read = @ \cup {rank}]
    /\ UNCHANGED <<ck, ob, sb, mf, dr>>

\* get_lm_corpus in the process of worker rank, no cache file found or the
\* dataset being wiki: the corpus is built (372-388)
DistBuild(rank) ==
    /\ di # Off
    /\ di.worker[rank].pc = "start"
    /\ di.cache = NoCache \/ di.dataset = "wiki"
    /\ \E c \in CorpusOutcomes(di.dataset, di.test, di.n_files, di.n_train) :
          di' = [di EXCEPT !.worker[rank] = IF c.pc = "corpus"
                                            THEN [c EXCEPT !.pc = "built"] ELSE c]
    /\ UNCHANGED <<ck, ob, sb, mf, dr>>

\* a plausible slip: the cache file is opened without waiting for its lock
DistLock_not_exclusive(rank) ==
    /\ di # Off
    /\ di.worker[rank].pc = "built"
    /\ di' = [di EXCEPT !.worker[rank].pc = "locked",
                        !.lock = rank,
                        !.cache = IF @ = NoCache THEN PartialCache ELSE @]
    /\ UNCHANGED <<ck, ob, sb, mf, dr>>

\* with portalocker.Lock(cache_filepath, timeout=60) (389): the file is
\* opened for appending, which creates it, and locked once no other process
\* holds the lock
DistLock(rank) ==
    /\ di # Off
    /\ di.worker[rank].pc = "built"
    /\ di.lock = NoHolder
    /\ di' = [di EXCEPT !.worker[rank].pc = "locked",
                        !.lock = rank,
                        !.cache = IF @ = NoCache THEN PartialCache ELSE @]
    /\ UNCHANGED <<ck, ob, sb, mf, dr>>

\* the lock is not obtained within the timeout: portalocker raises
DistLockTimeout(rank) ==
    /\ di # Off
    /\ di.worker[rank].pc = "built"
    /\ di.lock # NoHolder
    /\ di' = [di EXCEPT !.worker[rank] = [pc |-> "LockException"]]
    /\ UNCHANGED <<ck, ob, sb, mf, dr>>

\* torch.save(corpus, cache_filepath) starts (390): the file is truncated
DistWrite(rank) ==
    /\ di # Off
    /\ di.worker[rank].pc = "locked"
    /\ di' = [di EXCEPT !.worker[rank].pc = "writing",
                        !.cache = PartialCache,
                        !.wrote = @ \cup {rank}]
    /\ UNCHANGED <<ck, ob, sb, mf, dr>>

\* torch.save completes and the with block releases the lock (390-392)
DistSaved(rank) ==
    /\ di # Off
    /\ di.worker[rank].pc = "writing"
    /\ di' = [di EXCEPT !.worker[rank].pc = "corpus",
                        !.cache = [di.worker[rank] EXCEPT !.pc = "corpus"],
                        !.lock = NoHolder]
    /\ UNCHANGED <<ck, ob, sb, mf, dr>>

\* corpus.get_dist_iterator('train', bsz, bptt, ext_len=..., rank=rank,
\* max_rank=max_rank) (316-335): the batcher's constructor runs on the shard
get_dist_iterator(corpus, rank, max_rank, bsz, bptt, ext_len) ==
    IF corpus.dataset \in {"lm1b", "wiki"}
    THEN IF ~corpus.has_train_files THEN [pc |-> "AttributeError"]
         ELSE LET file_subset == chunk(corpus.train_files, max_rank)[rank + 1]
              IN  IF LMMultiFileIterator_init(file_subset, bsz, bptt, ext_len, FALSE).pc
                        = "AssertionError"
                  THEN [pc |-> "AssertionError"]
                  ELSE [pc |-> "shard", batcher |-> "LMMultiFileIterator",
                        split |-> corpus.train_files, shard |-> file_subset]
    ELSE IF Len(corpus.train) = 0 THEN [pc |-> "AssertionError"]
    ELSE LET subset == chunk(corpus.train, max_rank)[rank + 1]
         IN  IF LMOrderedIterator_init(subset, bsz, bptt, 0,
                                       IF ext_len # None THEN ext_len ELSE 0).pc
                   = "RuntimeError"
             THEN [pc |-> "RuntimeError"]
             ELSE [pc |-> "shard", batcher |-> "LMOrderedIterator",
                   split |-> corpus.train, shard |-> subset]

\* the batcher corpus.get_iterator('train', ...) builds for a file-list
\* dataset (346-351): kwargs['shuffle'] = True for lm1b
get_iterator_batcher(corpus, bsz, bptt, ext_len) ==
    LMMultiFileIterator_init(corpus.train, bsz, bptt, ext_len, corpus.dataset = "lm1b")

\* corpus.get_iterator('train', bsz, bptt, ext_len=...) (337-355); the wiki
\* corpus has train = None
get_iterator(corpus, bsz, bptt, ext_len) ==
    IF corpus.dataset = "wt103"
    THEN IF LMOrderedIterator_init(corpus.train, bsz, bptt, 0,
                                   IF ext_len # None THEN ext_len ELSE 0).pc
               = "RuntimeError"
         THEN [pc |-> "RuntimeError"]
         ELSE [pc |-> "iterator", batcher |-> "LMOrderedIterator",
               split |-> corpus.train, shard |-> corpus.train]
    ELSE IF get_iterator_batcher(corpus, bsz, bptt, ext_len).pc = "AssertionError"
         THEN [pc |-> "AssertionError"]
         ELSE [pc |-> "iterator", batcher |-> "LMMultiFileIterator",
               split |-> corpus.train, shard |-> corpus.train]

DistShard(rank) ==
    /\ di # Off
    /\ di.worker[rank].pc = "corpus"
    /\ \E bsz \in 1..MaxBsz, ext_len \in ExtLenArgs :
          di' = [di EXCEPT !.worker[rank] =
                    get_dist_iterator(@, rank, di.max_rank, bsz, MaxBptt, ext_len)]
    /\ UNCHANGED <<ck, ob, sb, mf, dr>>

DistIterator(rank) ==
    /\ di # Off
    /\ di.worker[rank].pc = "corpus"
    /\ \E bsz \in 1..MaxBsz, ext_len \in ExtLenArgs :
          di' = [di EXCEPT !.worker[rank] = get_iterator(@, bsz, MaxBptt, ext_len)]
    /\ UNCHANGED <<ck, ob, sb, mf, dr>>

DistNext ==
    \/ \E rank \in 0..(MaxRank - 1) : rank < di.max_rank /\ DistLoadCached(rank)
    \/ \E rank \in 0..(MaxRank - 1) : rank < di.max_rank /\ DistBuild(rank)
    \/ \E rank \in 0..(MaxRank - 1) : rank < di.max_rank /\ DistLock(rank)
    \/ \E rank \in 0..(MaxRank - 1) : rank < di.max_rank /\ DistLockTimeout(rank)
    \/ \E rank \in 0..(MaxRank - 1) : rank < di.max_rank /\ DistWrite(rank)
    \/ \E rank \in 0..(MaxRank - 1) : rank < di.max_rank /\ DistSaved(rank)
    \/ \E rank \in 0..(MaxRank - 1) : rank < di.max_rank /\ DistShard(rank)
    \/ \E rank \in 0..(MaxRank - 1) : rank < di.max_rank /\ DistIterator(rank)

SpecDist == DistInit /\ [][DistNext]_vars

\* every worker holds its shard
AllSharded ==
    /\ di # Off
    /\ \A rank \in 0..(di.max_rank - 1) : di.worker[rank].pc = "shard"

\* C6: each worker computing its shard from its own rank with chunk, the
\* shards of ranks 0..max_rank-1 are pairwise disjoint and together cover the
\* whole split exactly once, for file-list splits as for flat-stream splits.
C6_ShardsPartitionSplit ==
    AllSharded =>
        LET shard(rank) == di.worker[rank].shard
            split == Elements(di.worker[0].split)
        IN  /\ \A r1, r2 \in 0..(di.max_rank - 1) :
                  r1 # r2 => Elements(shard(r1)) \cap Elements(shard(r2)) = {}
            /\ UNION {Elements(shard(rank)) : rank \in 0..(di.max_rank - 1)} = split
            /\ Len(Concat([x \in 1..di.max_rank |-> shard(x - 1)])) = Cardinality(split)

\* C6 (flat-stream splits): the token shards of the workers are pairwise
\* disjoint and cover the stream exactly once.
C6_FlatShardsPartitionSplit ==
    (AllSharded /\ di.dataset = "wt103") => C6_ShardsPartitionSplit

\* C14: the factory never returns a batcher over an empty split or an empty
\* shard, for flat-stream and file-list splits alike: a request for a split
\* with no data fails at factory time.
C14_NoBatcherOverNothing ==
    di # Off =>
        \A rank \in 0..(di.max_rank - 1) :
            di.worker[rank].pc \in {"shard", "iterator"} =>
                /\ Len(di.worker[rank].split) > 0
                /\ Len(di.worker[rank].shard) > 0

\* C14 (flat-stream splits): a batcher over a flat stream holds at least one
\* token per lane.
C14_NoFlatBatcherOverNothing ==
    di # Off =>
        \A rank \in 0..(di.max_rank - 1) :
            (/\ di.worker[rank].pc \in {"shard", "iterator"}
             /\ di.worker[rank].batcher = "LMOrderedIterator") =>
                Len(di.worker[rank].shard) > 0

\* the datasets whose training split is a list of files
FileListBacked(dataset) == dataset \in {"lm1b", "wiki"}

\* get_lm_corpus has returned or raised in the process of worker rank
FactoryOver(rank) == di.worker[rank].pc \notin {"start", "built", "locked", "writing"}

\* C16: for a file-list-backed dataset the corpus factory never reads the
\* cache file and never writes one; for every other dataset it loads the
\* cache when the file exists and rebuilds and then writes it when absent.
C16_FileListsNeverCached ==
    di # Off =>
        \A rank \in 0..(di.max_rank - 1) :
            IF FileListBacked(di.dataset)
            THEN rank \notin di.read /\ rank \notin di.wrote
            ELSE FactoryOver(rank) => (rank \in di.read \/ rank \in di.wrote)

\* C16 (as far as it holds): the factory never reads the cache file for
\* dataset wiki, and a call for another dataset that is over without having
\* read the cache file has found none and has failed to build the corpus.
C16_WikiNeverLoaded ==
    di # Off =>
        \A rank \in 0..(di.max_rank - 1) :
            /\ di.dataset = "wiki" => rank \notin di.read
            /\ (di.dataset # "wiki" /\ FactoryOver(rank) /\ rank \notin di.read) =>
                  di.worker[rank].pc = "TypeError"

\* C17: a factory call for dataset D returns a corpus built for D, never the
\* cached corpus of another dataset built earlier in the same data directory
\* with the same encoding.
C17_CorpusOfRequestedDataset ==
    di # Off =>
        \A rank \in 0..(di.max_rank - 1) :
            di.worker[rank].pc = "corpus" => di.worker[rank].dataset = di.dataset

\* the workers that hold the cache file open for writing
Writers == {rank \in 0..(di.max_rank - 1) : di.worker[rank].pc \in {"locked", "writing"}}

\* C18: with concurrent factory calls on one cache path, at most one process
\* at a time is writing the cache file, in every interleaving; a writer is
\* the process that holds the lock.
C18_OneWriterAtATime ==
    di # Off =>
        /\ Cardinality(Writers) <= 1
        /\ \A rank \in Writers : di.lock = rank

\* a worker is writing the cache file while another has built its corpus and
\* waits for the lock
C18_Witness ==
    /\ di # Off
    /\ \E r1, r2 \in 0..(di.max_rank - 1) :
          /\ di.worker[r1].pc = "writing"
          /\ di.worker[r2].pc = "built"

----------------------------------------------------------------------------
(* main_loop and run_checkpoint_test: train.py 445-739, on a flat training
   stream with one local worker *)

\* longest training stream of a run, in tokens
MaxRunLen == 5

\* largest token budget (args.max_tokens)
MaxTokens == 6

\* largest args.mem_len
MaxMemLen == 1

\* the values of args.eval_interval
EvalIntervals == {1, 2}

\* the uninterrupted run, and the run that is stopped, saved and restored
Runs == {"full", "part"}

NoBundle == [pc |-> "none"]

\* the state bundle of a fresh main_loop (460-471)
NewState ==
    [pc            |-> "state",
     tr_iter       |-> NoBatcher,
     mems          |-> <<>>,
     has_mems      |-> FALSE,     \* mems is not None
     last_epoch    |-> 1,
     train_step    |-> 0,
     token_count   |-> 0,
     partial_epoch |-> FALSE]

\* util.save_state(state, fn): the bundle as it is, written to the file
save_state(state) == state

\* util.load_state(fn): the bundle read back from the file
load_state(file) == file

\* a main_loop call at its entry: the budget, the bundle, the losses list
MainLoop(state, max_tokens, resumed, before) ==
    [pc         |-> "epoch",
     state      |-> state,
     max_tokens |-> max_tokens,
     ext_len    |-> dr.ext_len,         \* args.ext_len of the call
     epoch      |-> state.last_epoch,   \* itertools.count(start=state.last_epoch)
     i          |-> 0,                  \* the loop variable of the batcher's generator
     losses     |-> <<>>,               \* one record per training step of this call
     n_eval     |-> 0,                  \* calls of evaluate_and_log
     point      |-> "none",             \* where the call was interrupted
     after      |-> "none",             \* where the call before it was interrupted
     resumed    |-> resumed,
     before     |-> before]             \* the steps of the call that was stopped

DriverInit ==
    /\ \E L \in 1..MaxRunLen, bsz \in 1..MaxBsz, tgt_len \in 1..MaxBptt,
          ext_len \in 0..MaxExtLen, mem_len \in 0..MaxMemLen,
          eval_interval \in EvalIntervals, T1 \in 1..MaxTokens, T2 \in 1..MaxTokens :
          /\ T1 < T2
          /\ dr = [train |-> Natural(L), batch_size |-> bsz, tgt_len |-> tgt_len,
                   ext_len |-> ext_len, mem_len |-> mem_len,
                   eval_interval |-> eval_interval, T1 |-> T1, T2 |-> T2,
                   run   |-> [r \in Runs |-> [pc |-> "init"]],
                   saved |-> NoBundle]
    /\ ck = Off /\ di = Off /\ ob = Off /\ sb = Off /\ mf = Off

\* a run has left main_loop, returned or raised, or hangs in it
DrOver(r) == dr.run[r].pc \in {"stopped", "saved", "hang", "AssertionError", "RuntimeError"}

\* the runs are independent processes; the stopped run is stepped once the
\* uninterrupted one is over
DrTurn(r) == r = "part" => DrOver("full") /\ dr.run["full"].pc # "saved"

\* main_loop() of a fresh run (445-488): max_tokens is T2 for the
\* uninterrupted run, T1 for the run that is to be stopped
DrStart(r) ==
    /\ dr # Off
    /\ DrTurn(r)
    /\ dr.run[r].pc = "init"
    /\ dr' = [dr EXCEPT !.run[r] = MainLoop(NewState, IF r = "full" THEN dr.T2 ELSE dr.T1,
                                            FALSE, <<>>)]
    /\ UNCHANGED <<ck, di, ob, sb, mf>>

\* self.offset after the wrap-around of LMOrderedIterator.__iter__ (61-62)
WrappedOffset(tr_iter) ==
    IF tr_iter.offset >= tr_iter.n_step - 1
    THEN tr_iter.offset % (tr_iter.n_step - 1)
    ELSE tr_iter.offset

\* the head of the epoch loop (557-577): the loaded batcher and memory are
\* reused when partial_epoch is set, else a batcher is built at offset 0 and
\* the memory emptied; then enumerate(state.tr_iter) starts the generator,
\* which never leaves its wrap-around when the lanes hold one token
DrEpoch(r) ==
    /\ dr # Off
    /\ DrTurn(r)
    /\ dr.run[r].pc = "epoch"
    /\ LET run     == dr.run[r]
           tr_iter == IF run.state.partial_epoch THEN run.state.tr_iter
                      ELSE LMOrderedIterator_init(dr.train, dr.batch_size, dr.tgt_len,
                                                  0, run.ext_len)
           st      == [run.state EXCEPT
                          !.tr_iter = tr_iter,
                          !.mems = IF run.state.partial_epoch THEN @ ELSE <<>>,
                          !.has_mems = IF run.state.partial_epoch THEN @ ELSE TRUE,
                          !.last_epoch = run.epoch]
       IN  dr' = [dr EXCEPT !.run[r] =
                IF run.state.partial_epoch
                   /\ (run.state.tr_iter.pc = "none" \/ ~run.state.has_mems)
                THEN [run EXCEPT !.pc = "AssertionError"]
                ELSE IF tr_iter.pc = "RuntimeError"
                THEN [run EXCEPT !.pc = "RuntimeError"]
                ELSE IF tr_iter.n_step = 1
                THEN [run EXCEPT !.pc = "hang", !.state = st]
                ELSE [run EXCEPT !.pc = "batch",
                                 !.state = [st EXCEPT !.tr_iter.offset = WrappedOffset(tr_iter)],
                                 !.i = WrappedOffset(tr_iter)]]
    /\ UNCHANGED <<ck, di, ob, sb, mf>>

\* the memory the model returns (ret[1:]): none with mem_len 0, else a
\* function of the memory it was given and the batch
NewMems(mem_len, mems, i) == IF mem_len = 0 THEN <<>> ELSE Append(mems, i)

\* a plausible slip: the batcher's cursor is not moved when a batch is drawn
DrawBatch_cursor_kept(tr_iter, i) == tr_iter

\* next() on the batcher's generator: self.offset = i + self.bptt
DrawBatch(tr_iter, i) == [tr_iter EXCEPT !.offset = i + tr_iter.bptt]

\* one round of the batch loop (577-644): the batch is drawn and trained on,
\* the counters advance, the run stops when the budget is reached
DrBatch(r) ==
    /\ dr # Off
    /\ DrTurn(r)
    /\ dr.run[r].pc = "batch"
    /\ dr.run[r].i < dr.run[r].state.tr_iter.n_step - 1
    /\ LET run      == dr.run[r]
           st       == run.state
           batch    == get_batch(st.tr_iter.data, st.tr_iter.bptt, st.tr_iter.ext_len, run.i)
           total    == dr.batch_size * batch.seq_len       \* total_tokens
           consumed == Len(batch.data) * dr.batch_size     \* consumed_tokens
           trained  == [st EXCEPT !.tr_iter = DrawBatch(st.tr_iter, run.i),
                                  !.mems = NewMems(dr.mem_len, st.mems, run.i),
                                  !.train_step = @ + 1]
           counted  == [trained EXCEPT !.token_count = @ + consumed]
           record   == [batch       |-> batch,
                        mems        |-> st.mems,
                        train_step  |-> counted.train_step,
                        token_count |-> counted.token_count]
       IN  dr' = [dr EXCEPT !.run[r] =
                IF total # consumed
                THEN [run EXCEPT !.pc = "AssertionError", !.state = trained,
                                 !.losses = Append(@, record)]
                ELSE IF counted.token_count >= run.max_tokens
                THEN [run EXCEPT !.pc = "stopped",
                                 !.state = [counted EXCEPT !.partial_epoch = TRUE],
                                 !.losses = Append(@, record)]
                ELSE [run EXCEPT !.state = counted,
                                 !.losses = Append(@, record),
                                 !.i = @ + st.tr_iter.bptt,
                                 !.n_eval = IF counted.train_step % dr.eval_interval = 0
                                            THEN @ + 1 ELSE @]]
    /\ UNCHANGED <<ck, di, ob, sb, mf>>

\* where in the epoch loop a KeyboardInterrupt may arrive: at the head of an
\* epoch, in next() before the batch is yielded, after the yield, after the
\* model's forward pass, after optimizer.step() and the step counter
InterruptPoints == {"epoch", "next", "drawn", "forward", "stepped"}

\* the state bundle when the step on the batch at i is interrupted at point
PartialStep(st, mem_len, i, point) ==
    [st EXCEPT !.tr_iter = IF point \in {"drawn", "forward", "stepped"}
                           THEN DrawBatch(@, i) ELSE @,
               !.mems = IF point \in {"forward", "stepped"}
                        THEN NewMems(mem_len, @, i) ELSE @,
               !.train_step = IF point = "stepped" THEN @ + 1 ELSE @]

\* a plausible slip: the interruption is not caught and leaves main_loop as
\* an exception
KeyboardInterrupt_propagated(run, point) ==
    [run EXCEPT !.pc = "KeyboardInterrupt", !.point = point]

\* except KeyboardInterrupt: ... return losses (706-712)
KeyboardInterrupt(run, point) ==
    [run EXCEPT !.pc = "interrupted", !.point = point]

\* Ctrl + C while main_loop is in its epoch loop (556-712): whatever part of
\* the step has run stays done, then the handler runs; a run restored after
\* an interruption is left to run
DrInterrupt(r) ==
    /\ dr # Off
    /\ DrTurn(r)
    /\ dr.run[r].pc # "init" => dr.run[r].after = "none"
    /\ \E point \in InterruptPoints :
          LET run == dr.run[r]
          IN  /\ IF point = "epoch" THEN run.pc = "epoch"
                 ELSE IF point = "next" THEN run.pc = "batch"
                 ELSE run.pc = "batch" /\ run.i < run.state.tr_iter.n_step - 1
              /\ dr' = [dr EXCEPT !.run[r] =
                    KeyboardInterrupt(
                        [run EXCEPT !.state = PartialStep(@, dr.mem_len, run.i, point)],
                        point)]
    /\ UNCHANGED <<ck, di, ob, sb, mf>>

\* the batcher's range is exhausted: end of the epoch loop's body (698-704)
DrEpochEnd(r) ==
    /\ dr # Off
    /\ DrTurn(r)
    /\ dr.run[r].pc = "batch"
    /\ dr.run[r].i >= dr.run[r].state.tr_iter.n_step - 1
    /\ dr' = [dr EXCEPT !.run[r].pc = "epoch",
                        !.run[r].state.partial_epoch = FALSE,
                        !.run[r].epoch = @ + 1]
    /\ UNCHANGED <<ck, di, ob, sb, mf>>

\* util.save_state(g.state, fn) after main_loop has returned, stopped at the
\* budget or interrupted (729, 752-753)
DrSave ==
    /\ dr # Off
    /\ DrTurn("part")
    /\ dr.run["part"].pc \in {"stopped", "interrupted"}
    /\ ~dr.run["part"].resumed
    /\ dr' = [dr EXCEPT !.saved = save_state(dr.run["part"].state),
                        !.run["part"].pc = "saved"]
    /\ UNCHANGED <<ck, di, ob, sb, mf>>

\* main_loop() with load_state_fn set and max_tokens = T2 (473-475, 732-736),
\* under the configuration of the run that was stopped or with another
\* args.ext_len (after an interruption: under the same configuration)
DrRestore ==
    /\ dr # Off
    /\ dr.run["part"].pc = "saved"
    /\ \E ext_len \in 0..MaxExtLen :
          /\ dr.run["part"].point # "none" => ext_len = dr.ext_len
          /\ dr' = [dr EXCEPT !.run["part"] =
                    [MainLoop(load_state(dr.saved), dr.T2, TRUE, dr.run["part"].losses)
                        EXCEPT !.ext_len = ext_len,
                               !.after = dr.run["part"].point]]
    /\ UNCHANGED <<ck, di, ob, sb, mf>>

DriverNext ==
    \/ \E r \in Runs : DrStart(r)
    \/ \E r \in Runs : DrEpoch(r)
    \/ \E r \in Runs : DrBatch(r)
    \/ \E r \in Runs : DrEpochEnd(r)
    \/ \E r \in Runs : DrInterrupt(r)
    \/ DrSave
    \/ DrRestore

SpecDriver == DriverInit /\ [][DriverNext]_vars

\* both runs have stopped at the budget T2, the second after its restore
\* under the configuration it was stopped with
BothStopped ==
    /\ dr # Off
    /\ dr.run["full"].pc = "stopped"
    /\ dr.run["part"].pc = "stopped"
    /\ dr.run["part"].resumed
    /\ dr.run["part"].after = "none"
    /\ dr.run["part"].ext_len = dr.ext_len

\* what the uninterrupted run trained on after its first k steps, k the number
\* of steps of the stopped run
FullAfterStop ==
    SubSeq(dr.run["full"].losses, Len(dr.run["part"].before) + 1, Len(dr.run["full"].losses))

\* the stop at T1 fell on the last batch of an epoch
StoppedAtEpochEnd == dr.saved.tr_iter.offset >= dr.saved.tr_iter.n_step - 1

\* C5: for any budgets T1 < T2 a fresh run stopped at T1, saved, restored and
\* run to T2 trains after the restore on exactly the batches, with the same
\* memory and counters, that an uninterrupted fresh run to T2 trains on after
\* its first k steps, also when the stop falls on the last batch of an epoch.
C5_ResumeMatchesUninterrupted ==
    BothStopped => dr.run["part"].losses = FullAfterStop

\* C5 (stop inside an epoch, the budget T2 not yet reached at the stop): the
\* restored run trains on what the uninterrupted run trains on after k steps.
C5_ResumeMidEpoch ==
    (BothStopped /\ ~StoppedAtEpochEnd /\ dr.saved.token_count < dr.T2) =>
        dr.run["part"].losses = FullAfterStop

\* C5 (stop on the last batch of an epoch, the budget T2 not yet reached at
\* the stop): the restored run trains on what the uninterrupted run trains on
\* after k steps.
C5_ResumeAtEpochEnd ==
    (BothStopped /\ StoppedAtEpochEnd /\ dr.saved.token_count < dr.T2) =>
        dr.run["part"].losses = FullAfterStop

----------------------------------------------------------------------------
(* the three batchers side by side *)

SpecBatchers ==
    /\ OrderedInit \/ ShuffledInit \/ MultiInit
    /\ [][OrderedNext \/ ShuffledNext \/ MultiNext]_vars

\* the original and the rebuilt multi-file batcher have both run to their end
MfResumeDone ==
    /\ mf # Off
    /\ mf.it["orig"].pc \in {"done", "RuntimeError"}
    /\ mf.it["fresh"].pc \in {"done", "RuntimeError"}

\* what the original yielded after the yield at which its offsets were taken
MfRemaining == SubSeq(mf.it["orig"].out, mf.mark + 1, Len(mf.it["orig"].out))

\* C4: a fresh multi-file batcher on the same paths, bsz and bptt, given the
\* file_offset and stream_offsets the original had while suspended after a
\* yield, yields exactly the batches the original yields from that yield on,
\* and ends as the original ends.
C4_MultiFileResume ==
    (mf # Off /\ mf.it["fresh"].pc \notin {"none", "new"}) =>
        /\ IsPrefix(mf.it["fresh"].out, MfRemaining)
        /\ MfResumeDone => /\ mf.it["fresh"].out = MfRemaining
                           /\ mf.it["fresh"].pc = mf.it["orig"].pc

\* the original yielded from the first file, its offsets were taken at a
\* yield in the second file, and the rebuilt batcher yielded the rest of the
\* second file
C4_Witness ==
    /\ MfResumeDone
    /\ mf.mark >= 2
    /\ mf.it["orig"].out[1].file = 0
    /\ mf.it["orig"].out[mf.mark].file = 1
    /\ Len(mf.it["fresh"].out) >= 1
    /\ mf.it["fresh"].out[1].file = 1

\* the sentences of a lane of the shuffled batcher, each without its first
\* token, one after the other
ShLaneSentenceTargets(lane) ==
    Concat([k \in 1..Len(sb.took[lane]) |-> Tail(sb.data[sb.took[lane][k]])])

\* the targets a lane of the multi-file batcher was given in file file_num
MfLaneTargets(s, file_num, lane) ==
    LET these == SelectSeq(s.out, LAMBDA batch : batch.file = file_num)
    IN  LaneTargets(these, lane)

\* the piece of file file_num that lane reads
MfPiece(s, file_num, lane) ==
    SplitPieces(s.paths[file_num + 1], Len(s.paths[file_num + 1]) \div s.bsz)[lane]

\* C7 (shuffled batcher): at every yield the targets a lane has been given so
\* far are the concatenation of sentence[1:] over the sentences the lane
\* consumed, up to the part of its current sentence not yet handed out.
C7_ShuffledLaneTargets ==
    (sb # Off /\ sb.pc = "yield") =>
        \A lane \in 1..sb.bsz :
            /\ IsPrefix(LaneTargets(sb.out, lane), ShLaneSentenceTargets(lane))
            /\ Len(ShLaneSentenceTargets(lane)) - Len(LaneTargets(sb.out, lane))
                  = Len(sb.streams[lane]) - 1

\* C7: in the shuffled batcher a lane's targets are the concatenation of
\* sentence[1:] over its consumed sentences, and in the multi-file batcher,
\* within every file, the targets of lane b are a prefix of
\* piece_b[1:], the lane starting at the first token of its piece.
C7_LaneTargetsFromPieceStart ==
    /\ C7_ShuffledLaneTargets
    /\ (mf # Off /\ mf.it["orig"].pc \in {"yield", "done", "RuntimeError"}) =>
          LET s == mf.it["orig"]
          IN  \A file_num \in 0..(Len(s.paths) - 1) :
                 Len(s.paths[file_num + 1]) >= s.bsz =>
                    \A lane \in 1..s.bsz :
                        IsPrefix(MfLaneTargets(s, file_num, lane),
                                 Tail(MfPiece(s, file_num, lane)))

\* the sentence a token of the shuffled batcher's list belongs to, 0 for a
\* value that is no token
SentenceOf(data, token) ==
    IF \E k \in 1..Len(data) : \E j \in 1..Len(data[k]) : data[k][j] = token
    THEN CHOOSE k \in 1..Len(data) : \E j \in 1..Len(data[k]) : data[k][j] = token
    ELSE 0

\* every batch of the batchers of a state, with the sentence list its tokens
\* come from (the empty list where the batcher reads a token stream)
YieldedBatches ==
    IF ob # Off
    THEN UNION {{[batch |-> ob.it[b].out[k], sents |-> <<>>] : k \in 1..Len(ob.it[b].out)} :
                   b \in {b \in Batchers : ob.it[b].pc \notin {"none", "RuntimeError"}}}
    ELSE IF sb # Off
    THEN IF sb.pc = "new" THEN {}
         ELSE {[batch |-> sb.out[k], sents |-> sb.data] : k \in 1..Len(sb.out)}
    ELSE IF mf # Off
    THEN UNION {{[batch |-> [data    |-> mf.it[b].out[k].data,
                             target  |-> mf.it[b].out[k].target,
                             seq_len |-> mf.it[b].out[k].seq_len],
                  sents |-> <<>>] : k \in 1..Len(mf.it[b].out)} :
                   b \in {b \in Batchers :
                            mf.it[b].pc \notin {"none", "args", "AssertionError"}}}
    ELSE {}

\* input rows ext + t and ext + t + 1 of the lane hold tokens of one sentence
\* (always so where the batcher reads a token stream)
SameSentence(y, lane, t) ==
    LET ext == Len(y.batch.data) - y.batch.seq_len
    IN  y.sents # <<>> =>
            SentenceOf(y.sents, y.batch.data[ext + t][lane])
                = SentenceOf(y.sents, y.batch.data[ext + t + 1][lane])

\* C8 as stated: in every yielded batch of every batcher, for every lane and
\* every t below seq_len - 1, target row t is input row ext + t + 1.
C8_ShiftedByOneEverywhere ==
    \A y \in YieldedBatches :
        \A lane \in 1..Len(y.batch.target[1]) : ShiftedByOne(y.batch, lane)

\* C8: in every yielded batch of the ordered and the multi-file batcher, for
\* every lane and every t below seq_len - 1, target row t is input row
\* ext + t + 1; in the shuffled batcher this holds for every t at which input
\* rows ext + t and ext + t + 1 hold tokens of the same sentence.
C8_ShiftedByOneWithinSentence ==
    \A y \in YieldedBatches :
        \A lane \in 1..Len(y.batch.target[1]) :
            \A t \in 1..(y.batch.seq_len - 1) :
                SameSentence(y, lane, t) =>
                    y.batch.target[t][lane]
                        = y.batch.data[Len(y.batch.data) - y.batch.seq_len + t + 1][lane]

\* a batch of the shuffled batcher with one lane inside a sentence and another
\* lane crossing from a sentence into the next
C8_Witness ==
    /\ sb # Off
    /\ sb.pc = "yield"
    /\ \E y \in YieldedBatches :
          \E lane, other \in 1..sb.bsz :
             \E t \in 1..(y.batch.seq_len - 1) :
                /\ SameSentence(y, lane, t)
                /\ ~SameSentence(y, other, t)

\* C9: constructing the multi-file batcher with a nonzero extended-context
\* length fails with an error and gives no batcher; with length 0 or none
\* given it succeeds with file_offset 0 and all bsz stream offsets 0.
C9_MultiFileConstructor ==
    (mf # Off /\ mf.it["orig"].pc # "args") =>
        /\ mf.args.ext_len \notin {None, 0} => mf.it["orig"] = [pc |-> "AssertionError"]
        /\ mf.args.ext_len \in {None, 0} => mf.it["orig"].pc # "AssertionError"
        /\ mf.it["orig"].pc = "new" =>
              /\ mf.it["orig"].file_offset = 0
              /\ mf.it["orig"].stream_offsets = [lane \in 1..mf.args.bsz |-> 0]

\* a constructor call with a nonzero length has failed
C9_Witness ==
    /\ mf # Off
    /\ mf.args.ext_len \notin {None, 0}
    /\ mf.it["orig"] = [pc |-> "AssertionError"]

\* the batch of the example: inputs [[1,4],[2,6]], targets [[2,5],[3,7]]
ExampleBatch ==
    [data    |-> <<<<1, 4>>, <<2, 6>>>>,
     target  |-> <<<<2, 5>>, <<3, 7>>>>,
     seq_len |-> 2]

\* the shuffled batcher of the example: [[1,2,3],[4,5],[6,7,8,9]], bsz 2,
\* bptt 2, ext_len 0, shuffle off
IsExample ==
    /\ sb # Off
    /\ sb.data = ExampleSentences
    /\ sb.bsz = 2 /\ sb.bptt = 2 /\ sb.ext_len = 0 /\ ~sb.shuffle

----------------------------------------------------------------------------
(* extended-context carry-over of the shuffled batcher *)

\* the first n rows and the last n rows of a matrix
FirstRows(m, n) == SubSeq(m, 1, n)
LastRows(m, n) == SubSeq(m, Len(m) - n + 1, Len(m))

\* C11: with ext_len = E > 0, for every two consecutive yielded batches the
\* first E rows of the later batch's input are the last E rows of the earlier
\* batch's input as it was when yielded, for E <= bptt and for E > bptt.
C11_CarryOverLastERows ==
    (sb # Off /\ sb.pc \in {"yield", "done"} /\ sb.ext_len > 0) =>
        \A n \in 2..Len(sb.out) :
            /\ Len(sb.out[n - 1].data) >= sb.ext_len
            /\ Len(sb.out[n].data) >= sb.ext_len
            /\ FirstRows(sb.out[n].data, sb.ext_len)
                   = LastRows(sb.out[n - 1].data, sb.ext_len)

\* C11 (as far as the earlier batch has rows): the first m rows of the later
\* batch's input are the last m rows of the earlier batch's input, m the
\* smaller of E and the number of rows of the earlier input.
C11_CarryOverAvailableRows ==
    (sb # Off /\ sb.pc \in {"yield", "done"} /\ sb.ext_len > 0) =>
        \A n \in 2..Len(sb.out) :
            LET m == Min(sb.ext_len, Len(sb.out[n - 1].data))
            IN  FirstRows(sb.out[n].data, m) = LastRows(sb.out[n - 1].data, m)

\* C11 (as far as the earlier batch has rows, and the copy's source and
\* destination rows do not overlap in part): as C11_CarryOverAvailableRows.
C11_CarryOverWithoutOverlap ==
    (sb # Off /\ sb.pc \in {"yield", "done"} /\ sb.ext_len > 0) =>
        \A n \in 2..Len(sb.out) :
            LET size == Len(sb.out[n - 1].data)
                m    == Min(sb.ext_len, size)
            IN  (size - m = 0 \/ size - m >= m) =>
                    FirstRows(sb.out[n].data, m) = LastRows(sb.out[n - 1].data, m)

----------------------------------------------------------------------------
(* the batches of one pass of the ordered batcher *)

\* ceil(a / b) for b > 0
Ceil(a, b) == (a + b - 1) \div b

\* the ordered batcher of the example
IsExampleOrdered(b) ==
    /\ ob # Off
    /\ Len(ob.stream) = ExampleOrdered.L
    /\ ob.it[b].pc # "none"
    /\ ob.it[b].bsz = ExampleOrdered.bsz
    /\ ob.it[b].bptt = ExampleOrdered.bptt
    /\ ob.it[b].ext_len = ExampleOrdered.ext_len

----------------------------------------------------------------------------
(* the training driver at the token budget *)

\* the record of the last training step of a run's main_loop call
LastStep(r) == dr.run[r].losses[Len(dr.run[r].losses)]

\* C13: when after a training step the token counter has reached the budget,
\* main_loop sets partial_epoch and returns normally without drawing another
\* batch: the batcher's cursor is the one set when the step's batch was
\* yielded, and memory, step counter and token counter are those the step
\* left; and the loop goes on to another batch only below the budget.
C13_BudgetStop ==
    \A r \in Runs :
        /\ (dr # Off /\ dr.run[r].pc = "stopped") =>
              LET run == dr.run[r]
              IN  /\ run.state.partial_epoch
                  /\ run.state.token_count >= run.max_tokens
                  /\ run.state.token_count = LastStep(r).token_count
                  /\ run.state.train_step = LastStep(r).train_step
                  /\ run.state.mems = NewMems(dr.mem_len, LastStep(r).mems, run.i)
                  /\ run.state.tr_iter.offset = run.i + dr.tgt_len
                  /\ run.state.tr_iter.data = OrderedData(dr.train, dr.batch_size)
        /\ (dr # Off /\ dr.run[r].pc = "batch" /\ Len(dr.run[r].losses) >= 1) =>
              dr.run[r].state.token_count < dr.run[r].max_tokens

\* a run has stopped at its budget inside an epoch, after two steps or more
C13_Witness ==
    /\ dr # Off
    /\ dr.run["full"].pc = "stopped"
    /\ Len(dr.run["full"].losses) >= 2
    /\ dr.mem_len >= 1
    /\ dr.run["full"].state.tr_iter.offset < dr.run["full"].state.tr_iter.n_step - 1

----------------------------------------------------------------------------
(* a state bundle restored under another configuration *)

\* the restored run's args.ext_len is not the ext_len of the batcher in the
\* bundle
RestoredMismatched ==
    /\ dr # Off
    /\ dr.run["part"].pc \notin {"init", "saved"}
    /\ dr.run["part"].resumed
    /\ dr.run["part"].after = "none"
    /\ dr.run["part"].ext_len # dr.saved.tr_iter.ext_len

----------------------------------------------------------------------------
(* evaluate_and_log and its calls: train.py 395-442, 643-644, 756, 777 *)

\* largest mean loss of an evaluation; the losses are 0..MaxLoss
MaxLoss == 2

\* most training steps of the run
MaxEvalSteps == 3

\* if split == 'val' and (not state.best_val_loss or mean_loss <
\* state.best_val_loss): not x holds of None and of 0.0
evaluate_and_log(state, split, mean_loss) ==
    IF split = "val" /\ (state.best_val_loss = None \/ state.best_val_loss = 0
                         \/ mean_loss < state.best_val_loss)
    THEN [state EXCEPT !.best_val_loss = mean_loss,
                       !.n_best = @ + 1]    \* dist_save_checkpoint(..., suffix='best')
    ELSE state

\* the run with one evaluation appended: what it was called with and what
\* it did
Evaluated(run, split, mean_loss) ==
    LET after == evaluate_and_log(run.state, split, mean_loss)
    IN  [run EXCEPT !.state = after,
                    !.evals = Append(@, [split     |-> split,
                                         mean_loss |-> mean_loss,
                                         saved     |-> after.n_best # run.state.n_best,
                                         before    |-> run.state.best_val_loss,
                                         after     |-> after.best_val_loss])]

\* a fresh training state (460-471), in a run of __main__
EvalInit ==
    /\ \E eval_interval \in EvalIntervals :
          dr = [pc            |-> "train",
                eval_interval |-> eval_interval,
                train_step    |-> 0,
                state         |-> [best_val_loss |-> None, n_best |-> 0],
                evals         |-> <<>>]
    /\ ck = Off /\ di = Off /\ ob = Off /\ sb = Off /\ mf = Off

\* a training step below the budget: state.train_step += 1, then the
\* validation split is evaluated every eval_interval steps (613, 643-644)
EvTrainStep ==
    /\ dr # Off
    /\ dr.pc = "train"
    /\ dr.train_step < MaxEvalSteps
    /\ \E mean_loss \in 0..MaxLoss :
          LET stepped == [dr EXCEPT !.train_step = @ + 1]
          IN  dr' = IF stepped.train_step % dr.eval_interval = 0
                    THEN Evaluated(stepped, "val", mean_loss)
                    ELSE stepped
    /\ UNCHANGED <<ck, di, ob, sb, mf>>

\* main_loop returns; __main__ evaluates the validation split once more (756)
EvFinal ==
    /\ dr # Off
    /\ dr.pc = "train"
    /\ \E mean_loss \in 0..MaxLoss :
          dr' = [Evaluated(dr, "val", mean_loss) EXCEPT !.pc = "final"]
    /\ UNCHANGED <<ck, di, ob, sb, mf>>

\* __main__ evaluates the test split (777)
EvTest ==
    /\ dr # Off
    /\ dr.pc = "final"
    /\ \E mean_loss \in 0..MaxLoss :
          dr' = [Evaluated(dr, "test", mean_loss) EXCEPT !.pc = "done"]
    /\ UNCHANGED <<ck, di, ob, sb, mf>>

EvalNext == EvTrainStep \/ EvFinal \/ EvTest

SpecEval == EvalInit /\ [][EvalNext]_vars

\* the mean losses of the validation evaluations among the first k
ValLosses(k) == {dr.evals[j].mean_loss : j \in {x \in 1..k : dr.evals[x].split = "val"}}

\* the smallest element of a non-empty set of losses
MinLoss(S) == CHOOSE x \in S : \A y \in S : x <= y

\* evaluation k did what the rule asks of it: a validation evaluation saves
\* the best checkpoint exactly when its loss is below every earlier
\* validation loss, best_val_loss is then the least validation loss so far,
\* and a test evaluation changes nothing
CheckpointIfImproved(k) ==
    LET e == dr.evals[k]
    IN  IF e.split = "val"
        THEN /\ e.saved <=> \A earlier \in ValLosses(k - 1) : e.mean_loss < earlier
             /\ e.after = MinLoss(ValLosses(k))
             /\ e.before # None => e.after <= e.before
        ELSE ~e.saved /\ e.after = e.before

\* C19: the best checkpoint is written and best_val_loss updated exactly when
\* a validation evaluation's mean loss is strictly below every earlier
\* validation mean loss, or it is the first; best_val_loss is the least
\* validation loss so far and never increases, and test evaluations never
\* change it.
C19_BestValLossIsMinimum ==
    dr # Off => \A k \in 1..Len(dr.evals) : CheckpointIfImproved(k)

\* C19 (no earlier validation loss of exactly 0): evaluation k does what the
\* rule asks of it.
C19_BestValLossIsMinimumAboveZero ==
    dr # Off =>
        \A k \in 1..Len(dr.evals) : 0 \notin ValLosses(k - 1) => CheckpointIfImproved(k)

----------------------------------------------------------------------------
(* an interactive interruption of the training loop *)

----------------------------------------------------------------------------
(* where chunk puts the remainder *)

----------------------------------------------------------------------------
(* the layout of the ordered batcher's matrix *)

\* the batcher objects that have been built
Built == {b \in Batchers : ob.it[b].pc \notin {"none", "RuntimeError"}}

\* C22 (as stated): lane i takes every W-th element of the stream starting
\* at i: the token at time step t of lane i is stream[t*W + i].
C22_LaneTakesEveryWth ==
    ob # Off =>
        \A b \in Built :
            \A t \in 0..(ob.it[b].n_step - 1), i \in 0..(ob.it[b].bsz - 1) :
                ob.it[b].data[t + 1][i + 1] = ob.stream[t * ob.it[b].bsz + i + 1]

\* C22: lane i does not take every W-th element: the token at time step t of
\* lane i is stream[i*n_per_lane + t], which is stream[t*W + i] only at the
\* cells where the two positions coincide, all of them exactly when W = 1 or
\* n_per_lane = 1.
C22_LaneTakesRunNotEveryWth ==
    ob # Off =>
        \A b \in Built :
            LET W == ob.it[b].bsz
                n == ob.it[b].n_step
                strided == \A t \in 0..(n - 1), i \in 0..(W - 1) :
                               ob.it[b].data[t + 1][i + 1] = ob.stream[t * W + i + 1]
            IN  /\ \A t \in 0..(n - 1), i \in 0..(W - 1) :
                      /\ ob.it[b].data[t + 1][i + 1] = ob.stream[i * n + t + 1]
                      /\ ob.it[b].data[t + 1][i + 1] = ob.stream[t * W + i + 1]
                            <=> i * n + t = t * W + i
                /\ strided <=> (W = 1 \/ n = 1)

\* a batcher with two lanes of three tokens or more
C22_Witness ==
    /\ ob # Off
    /\ ob.it["orig"].pc = "new"
    /\ ob.it["orig"].bsz = 2
    /\ ob.it["orig"].n_step >= 3
    /\ ob.it["orig"].data[2][1] = ob.stream[2]

\* C23: the batcher drops the last (L mod W) tokens of a stream of length L,
\* sets n_per_lane = L // W, and its matrix has n_per_lane rows of W tokens
\* in which lane i is the contiguous run of the stream that starts at
\* i*n_per_lane.
C23_LanesAreContiguousRuns ==
    ob # Off =>
        \A b \in Built :
            LET L == Len(ob.stream)
                W == ob.it[b].bsz
                n == ob.it[b].n_step
            IN  /\ n = L \div W
                /\ Len(ob.it[b].data) = n
                /\ \A t \in 1..n : Len(ob.it[b].data[t]) = W
                /\ \A i \in 0..(W - 1) :
                      Lane(ob.it[b].data, i + 1) = Slice(ob.stream, i * n, (i + 1) * n)
                /\ UNION {Elements(ob.it[b].data[t]) : t \in 1..n}
                      = Elements(ob.stream) \ Elements(SliceFrom(ob.stream, L - (L % W)))

\* a batcher with two lanes over a stream of odd length, one token dropped
C23_Witness ==
    /\ ob # Off
    /\ ob.it["orig"].pc = "new"
    /\ ob.it["orig"].bsz = 2
    /\ Len(ob.stream) % 2 = 1
    /\ ob.it["orig"].n_step >= 2
    /\ ob.stream[Len(ob.stream)] \notin Elements(Lane(ob.it["orig"].data, 2))

----------------------------------------------------------------------------
(* the shape of the ordered batcher's batches, and its cursor at a yield *)

\* the batchers suspended at a yield: the last batch of out is get_batch(i)
AtYield == {b \in Batchers : ob.it[b].pc = "yield"}

\* the batch a batcher suspended at a yield has just handed over
Held(b) == ob.it[b].out[Len(ob.it[b].out)]

Wrapped(offset, n_step) == offset % (n_step - 1)

----------------------------------------------------------------------------
(* when the batchers move their cursors *)

\* a step of the ordered batcher b that moves its offset forward hands a
\* batch over
OrdCursorStep(b) ==
    (/\ ob.it[b].pc \notin {"none", "RuntimeError"}
     /\ ob'.it[b].offset > ob.it[b].offset) =>
        Len(ob'.it[b].out) = Len(ob.it[b].out) + 1

\* a step of the multi-file batcher b that changes file_offset or
\* stream_offsets hands a batch over
MfCursorStep(b) ==
    (/\ mf.it[b].pc \in {"new", "yield"}
     /\ \/ mf'.it[b].file_offset # mf.it[b].file_offset
        \/ mf'.it[b].stream_offsets # mf.it[b].stream_offsets) =>
        Len(mf'.it[b].out) = Len(mf.it[b].out) + 1

\* C26: for every batcher variant the cursor fields (offset; file_offset and
\* stream_offsets) are advanced only in a step that hands a fully assembled
\* batch to the consumer: an assembly that ends without yielding a batch
\* leaves every cursor field unchanged.
C26_CursorsMoveOnlyWithABatch ==
    [][/\ ob # Off => \A b \in Batchers : OrdCursorStep(b)
       /\ mf # Off => \A b \in Batchers : MfCursorStep(b)]_vars

\* C26 (ordered batcher): the offset moves forward only in a step that hands
\* a batch over.
C26_OrderedCursorMovesOnlyWithABatch ==
    [][ob # Off => \A b \in Batchers : OrdCursorStep(b)]_vars

----------------------------------------------------------------------------
(* the wrap-around of the ordered batcher *)

\* the batchers with two tokens per lane or more whose current pass was
\* started with the offset at or past the last position
StartedPastEnd ==
    {b \in Batchers : /\ ob.it[b].pc \in {"wrap", "loop", "yield", "done"}
                      /\ ob.it[b].n_step >= 2
                      /\ ob.it[b].start >= ob.it[b].n_step - 1}

\* C27: when iteration of a batcher with n_per_lane >= 2 starts with
\* offset >= n_per_lane - 1, the offset is first reduced by a multiple of
\* n_per_lane - 1 to a value in [0, n_per_lane - 1), and batches are then
\* yielded from that position in steps of S until the position reaches
\* n_per_lane - 1: at least one batch.
C27_WrapAroundThenYield ==
    ob # Off =>
        \A b \in StartedPastEnd :
            LET it == ob.it[b]
                w  == Wrapped(it.start, it.n_step)
            IN  /\ it.pc = "wrap" => /\ it.offset >= w
                                     /\ (it.offset - w) % (it.n_step - 1) = 0
                /\ it.pc = "loop" => it.i = w + Len(it.out) * it.bptt
                /\ it.pc = "yield" => /\ it.i = w + (Len(it.out) - 1) * it.bptt
                                      /\ it.i < it.n_step - 1
                /\ it.pc = "done" => /\ Len(it.out) >= 1
                                     /\ w + (Len(it.out) - 1) * it.bptt < it.n_step - 1
                                     /\ w + Len(it.out) * it.bptt >= it.n_step - 1
                /\ it.pc # "wrap" =>
                      \A k \in 1..Len(it.out) :
                          it.out[k].target[1] = it.data[w + (k - 1) * it.bptt + 2]

\* an exhausted batcher iterated again: the offset is wrapped to a position
\* that is not the start, and the second pass yields two batches or more
C27_Witness ==
    /\ ob # Off
    /\ "orig" \in StartedPastEnd
    /\ ob.it["orig"].passes = 2
    /\ ob.it["orig"].pc = "done"
    /\ Wrapped(ob.it["orig"].start, ob.it["orig"].n_step) >= 1
    /\ Len(ob.it["orig"].out) >= 2

----------------------------------------------------------------------------
(* the end of the streamed batchers *)

\* the cells of a matrix
Cells(m) == UNION {Elements(m[t]) : t \in 1..Len(m)}

\* the tokens of the sentences a lane of the shuffled batcher took from the
\* sentence source
ShTaken(lane) == UNION {Elements(sb.data[sb.took[lane][k]]) : k \in 1..Len(sb.took[lane])}

\* the tokens the batches yielded hold, as inputs or targets
ShYielded == UNION {Cells(sb.out[k].data) \cup Cells(sb.out[k].target) : k \in 1..Len(sb.out)}

\* C28: in the shuffled batcher, as soon as the sentence source is exhausted
\* while a lane is being filled, the batch under assembly is discarded and
\* the generator ends: it ends only with the source exhausted and the
\* assembly invalid, no batch yielded holds a cell of an assembly that was
\* not completed, and once ended it yields nothing more.
C28_ExhaustionEndsShuffledBatcher ==
    /\ [](sb # Off /\ sb.pc \in {"yield", "done"} =>
            /\ \A k \in 1..Len(sb.out) :
                  /\ Sentinel \notin Cells(sb.out[k].target)
                  /\ Sentinel \notin Cells(sb.out[k].data)
                  /\ Len(sb.out[k].target) = sb.bptt
            /\ sb.pc = "yield" => sb.valid_batch
            /\ sb.pc = "done" => /\ ~sb.valid_batch
                                 /\ sb.pos = Len(sb.epoch_indices)
                                 /\ sb.out = <<>> \/ sb.out[Len(sb.out)].target # sb.target)
    /\ [][sb # Off /\ sb.pc = "done" => sb' = sb]_vars
    /\ [][sb # Off /\ sb.pc \in {"iter", "yield"} /\ sb'.pc = "done" => sb'.out = sb.out]_vars

\* the batcher has ended with its first lane filled from a sentence whose
\* tokens no batch holds, after a batch was yielded
C28_Witness ==
    /\ sb # Off
    /\ sb.pc = "done"
    /\ sb.bsz = 2
    /\ Len(sb.out) >= 1
    /\ ShTaken(1) \cap ShYielded # ShTaken(1)
    /\ sb.target[1][1] # Sentinel
    /\ sb.target[1][2] = Sentinel

\* the streamed batchers of a state whose generator has been started
Streamed ==
    IF sb # Off
    THEN IF sb.pc \in {"yield", "done"} THEN {sb} ELSE {}
    ELSE IF mf # Off
    THEN {mf.it[b] : b \in {b \in Batchers : mf.it[b].pc \in {"yield", "done", "RuntimeError"}}}
    ELSE {}

\* the assembly a generator ended on was filled in part: some of its target
\* cells hold tokens, the others the sentinel
EndedOnPartialBatch(s) ==
    /\ s.pc = "done"
    /\ Sentinel \in Cells(s.target)
    /\ Cells(s.target) # {Sentinel}

\* C29 as stated: a streamed batcher that ends on a batch a lane could not
\* fill delivers that batch as its last one, the unfilled cells holding -1.
C29_ShortLastBatchDelivered ==
    \A s \in Streamed :
        EndedOnPartialBatch(s) =>
            /\ s.out # <<>>
            /\ s.out[Len(s.out)].target = s.target

\* C29: the streamed batchers deliver no short batch: every batch yielded has
\* bptt rows of targets and seq_len bptt, none of its cells holds the sentinel
\* -1, and the batch a lane could not fill is not among them.
C29_NoShortBatchDelivered ==
    \A s \in Streamed :
        /\ \A k \in 1..Len(s.out) :
              /\ s.out[k].seq_len = s.bptt
              /\ Len(s.out[k].target) = s.bptt
              /\ Len(s.out[k].data) >= s.bptt
              /\ Sentinel \notin Cells(s.out[k].target)
              /\ Sentinel \notin Cells(s.out[k].data)
        /\ EndedOnPartialBatch(s) =>
              \A k \in 1..Len(s.out) : s.out[k].target # s.target

\* a multi-file batcher has ended, after a batch, on an assembly whose first
\* lane was filled in its first row and not in its last
C29_Witness ==
    /\ mf # Off
    /\ mf.it["orig"].pc = "done"
    /\ Len(mf.it["orig"].out) >= 1
    /\ EndedOnPartialBatch(mf.it["orig"])
    /\ mf.it["orig"].target[1][1] # Sentinel
    /\ mf.it["orig"].target[mf.it["orig"].bptt][1] = Sentinel

----------------------------------------------------------------------------
(* the pieces of a file the lanes of the multi-file batcher read *)

\* the original multi-file batcher is suspended at a yield in its first file
InFirstFile ==
    /\ mf # Off
    /\ mf.it["orig"].pc = "yield"
    /\ mf.it["orig"].file_num = 0

\* what a lane has read of the first file and what it still holds: its first
\* input, the targets it was given, and its stream after the stream's head
\* (the last target given)
MfLaneRead(s, lane) ==
    <<s.out[1].data[1][lane]>> \o MfLaneTargets(s, 0, lane) \o Tail(s.streams[lane])

\* C30 as stated: the lanes read the bsz pieces chunk would give, which
\* together cover the whole file.
C30_PiecesAreChunksOfFile ==
    InFirstFile =>
        LET s == mf.it["orig"]
        IN  /\ \A lane \in 1..s.bsz : MfLaneRead(s, lane) = chunk(s.paths[1], s.bsz)[lane]
            /\ Concat([lane \in 1..s.bsz |-> MfLaneRead(s, lane)]) = s.paths[1]

\* C30: the multi-file batcher splits a file of L tokens into pieces of
\* L // bsz tokens, lane i reads piece i of the first bsz of them, and the
\* last L mod bsz tokens of the file are in no lane: in the first file, what
\* lane i has read and still holds is sents[i*k : (i+1)*k] with k = L // bsz,
\* and the lanes together hold the first bsz*k tokens of the file; in every
\* file a lane's stream is the end of that slice.
C30_PiecesOfFloorSize ==
    /\ InFirstFile =>
          LET s == mf.it["orig"]
              k == Len(s.paths[1]) \div s.bsz
          IN  /\ \A lane \in 1..s.bsz :
                    MfLaneRead(s, lane) = Slice(s.paths[1], (lane - 1) * k, lane * k)
              /\ Concat([lane \in 1..s.bsz |-> MfLaneRead(s, lane)])
                    = Slice(s.paths[1], 0, s.bsz * k)
              /\ \A x \in Elements(SliceFrom(s.paths[1], s.bsz * k)) :
                    /\ \A lane \in 1..s.bsz : x \notin Elements(s.streams[lane])
                    /\ \A n \in 1..Len(s.out) :
                          x \notin Cells(s.out[n].data) \cup Cells(s.out[n].target)
    /\ mf # Off =>
          \A b \in Batchers :
              mf.it[b].pc = "yield" =>
                  LET s     == mf.it[b]
                      sents == s.paths[s.file_num + 1]
                      k     == Len(sents) \div s.bsz
                  IN  \A lane \in 1..s.bsz :
                          LET piece == Slice(sents, (lane - 1) * k, lane * k)
                          IN  /\ Len(s.streams[lane]) <= k
                              /\ s.streams[lane] = SliceFrom(piece, k - Len(s.streams[lane]))

\* a batch of a first file of two lanes whose length is odd
C30_Witness ==
    /\ InFirstFile
    /\ mf.it["orig"].bsz = 2
    /\ Len(mf.it["orig"].paths[1]) % 2 = 1
    /\ Len(mf.it["orig"].out) >= 1

----------------------------------------------------------------------------
(* the cursor of the multi-file batcher across files *)

\* the batches the original multi-file batcher yielded from file file_num
MfBatchesOf(s, file_num) == SelectSeq(s.out, LAMBDA batch : batch.file = file_num)

\* the batches a file of the list gives when it is iterated alone: each lane
\* hands out bptt tokens of its piece per batch while more than one is left
MfBatchesAlone(s, file_num) ==
    ((Len(s.paths[file_num + 1]) \div s.bsz) - 1) \div s.bptt

\* C31: at every yield of a fresh pass file_offset is the file being read and
\* stream_offsets[i] is the number of tokens of that file lane i was given,
\* every lane starting a file at token 0 of its piece; at the end of the pass
\* each file has given the batches it gives when iterated alone.
C31_OffsetsCountTokensOfCurrentFile ==
    (mf # Off /\ mf.it["orig"].pc \in {"yield", "done"}) =>
        LET s == mf.it["orig"]
        IN  /\ s.pc = "yield" =>
                  /\ s.file_offset = s.file_num
                  /\ \A lane \in 1..s.bsz :
                        /\ s.stream_offsets[lane] = Len(MfLaneTargets(s, s.file_num, lane))
                        /\ MfBatchesOf(s, s.file_num)[1].data[1][lane]
                              = MfPiece(s, s.file_num, lane)[1]
            /\ s.pc = "done" =>
                  \A file_num \in 0..(Len(s.paths) - 1) :
                      Len(MfBatchesOf(s, file_num)) = MfBatchesAlone(s, file_num)

----------------------------------------------------------------------------
(* the end of the ordered batcher's wrap-around *)

\* the steps a generator of the ordered batcher takes by itself inside one
\* next(): it is not suspended between them, so they are taken when they can be
OrdRuns(b) == OrdWrap(b) \/ OrdRange(b) \/ OrdYield(b) \/ OrdEnd(b)

SpecOrderedFair ==
    /\ SpecOrdered
    /\ \A b \in Batchers : WF_vars(OrdRuns(b))

\* C32: a generator of the ordered batcher that has entered its wrap-around
\* leaves it: it comes to a yield or to the end of its pass.
C32_WrapAroundTerminates ==
    \A b \in Batchers :
        (ob.it[b].pc = "wrap") ~> (ob.it[b].pc \in {"yield", "done"})

----------------------------------------------------------------------------
(* the token assertion of the training step *)

\* the runs that are in main_loop or have left it
Started == IF dr = Off THEN {} ELSE {r \in Runs : dr.run[r].pc # "init"}

\* C33: at every training step total_tokens, the batch width times the
\* batch's valid length, equals consumed_tokens, rows x columns of the input
\* matrix, so that no step ends in the AssertionError of line 634.
C33_TokenAssertionHolds ==
    \A r \in Started :
        \A k \in 1..Len(dr.run[r].losses) :
            LET batch == dr.run[r].losses[k].batch
            IN  dr.batch_size * batch.seq_len = Len(batch.data) * dr.batch_size

----------------------------------------------------------------------------
(* the epoch loop of main_loop over a worker's shard of training files:
   train.py 556-712 with the batcher of data_utils.py 326-329 *)

\* the epoch numbers told apart (itertools.count has no end)
MaxEpochs == 3

\* next() on a generator of the multi-file batcher that has not run yet
MfStart(s) ==
    LET g == MfGenerator(s)
    IN  IF g.file_offset >= Len(g.paths) THEN [g EXCEPT !.pc = "done"]
        ELSE IF Len(g.paths[g.file_offset + 1]) \div g.bsz = 0
             THEN [g EXCEPT !.pc = "RuntimeError"]
        ELSE MfRun(MfOpenFile(g, g.file_offset))

FileRunInit ==
    /\ \E paths \in FileLists, bsz \in 1..MaxBsz, tgt_len \in 1..MaxBptt,
          max_tokens \in 1..MaxTokens :
          dr = [pc          |-> "epoch",
                file_subset |-> paths,        \* list(chunk(self.train_files, max_rank))[rank]
                batch_size  |-> bsz,
                tgt_len     |-> tgt_len,
                max_tokens  |-> max_tokens,
                token_count |-> 0,
                train_step  |-> 0,
                epoch       |-> 1,
                tr_iter     |-> NoBatcher]
    /\ ck = Off /\ di = Off /\ ob = Off /\ sb = Off /\ mf = Off

\* the head of the epoch loop (557-575) with partial_epoch unset: a batcher
\* is built on the shard and enumerate(state.tr_iter) creates its generator
FrEpoch ==
    /\ dr # Off
    /\ dr.pc = "epoch"
    /\ dr' = [dr EXCEPT !.pc = "batch",
                        !.tr_iter = LMMultiFileIterator_init(dr.file_subset, dr.batch_size,
                                                             dr.tgt_len, 0, FALSE)]
    /\ UNCHANGED <<ck, di, ob, sb, mf>>

\* the effect on main_loop of a next() of the generator that left it as r:
\* a training step on the batch yielded (577-641), the end of the epoch
\* (698-704), or the error of the generator
FrStep(r) ==
    IF r.pc = "yield"
    THEN LET data     == r.out[Len(r.out)].data
             consumed == Len(data) * r.bsz
         IN  [dr EXCEPT !.tr_iter = r,
                        !.train_step = @ + 1,
                        !.token_count = @ + consumed,
                        !.pc = IF dr.token_count + consumed >= dr.max_tokens
                               THEN "stopped" ELSE "batch"]
    ELSE IF r.pc = "done"
    THEN [dr EXCEPT !.tr_iter = r,
                    !.pc = "epoch",
                    !.epoch = Min(@ + 1, MaxEpochs)]
    ELSE [dr EXCEPT !.tr_iter = r, !.pc = "RuntimeError"]

\* the first round of for batch, (data, target, seq_len) in enumerate(...)
FrFirst ==
    /\ dr # Off
    /\ dr.pc = "batch"
    /\ dr.tr_iter.pc = "new"
    /\ dr' = FrStep(MfStart(dr.tr_iter))
    /\ UNCHANGED <<ck, di, ob, sb, mf>>

\* a later round of the batch loop
FrNext ==
    /\ dr # Off
    /\ dr.pc = "batch"
    /\ dr.tr_iter.pc = "yield"
    /\ \E c \in MfCarry(dr.tr_iter) : dr' = FrStep(MfRun(c))
    /\ UNCHANGED <<ck, di, ob, sb, mf>>

FileRunNext ==
    \/ FrEpoch
    \/ FrFirst
    \/ FrNext

\* main_loop is one thread: having finished an epoch it starts the next
SpecFileRun ==
    /\ FileRunInit
    /\ [][FileRunNext]_vars
    /\ WF_vars(FrEpoch)

\* C34: main_loop does not go on for ever starting epochs: from some point
\* on it starts no further epoch, the token counter having reached the
\* budget.
C34_EpochLoopEnds ==
    <>[][~FrEpoch]_vars

----------------------------------------------------------------------------
(* concurrent calls of the corpus factory on one cache path *)

\* the workers that have rebuilt the corpus and not yet opened the cache file
Rebuilt == {rank \in 0..(di.max_rank - 1) : di.worker[rank].pc = "built"}

\* C35: every process that takes the load path reads a completely written
\* cache file, and while the cache file is absent at most one process has
\* rebuilt the corpus.
C35_CacheReadCompleteAndBuiltOnce ==
    di # Off =>
        /\ \A rank \in 0..(di.max_rank - 1) : di.worker[rank].pc # "UnpicklingError"
        /\ di.cache = NoCache => Cardinality(Rebuilt) <= 1

----------------------------------------------------------------------------
(* the resume of a run that was saved with its batcher not exhausted *)

\* the run that was saved has been restored under its configuration and has
\* trained on a batch, and the saved batcher was not exhausted
ResumedInsideEpoch ==
    /\ dr # Off
    /\ dr.run["part"].pc \notin {"init", "saved"}
    /\ dr.run["part"].resumed
    /\ dr.run["part"].ext_len = dr.ext_len
    /\ Len(dr.run["part"].losses) >= 1
    /\ dr.saved.tr_iter.pc # "none"
    /\ dr.saved.tr_iter.offset < dr.saved.tr_iter.n_step - 1

\* C36: a run restored from a state that was saved, after a stop at the
\* budget or after an interruption, while its batcher was not exhausted
\* trains first on the batch at the saved cursor.
C36_ResumeFromSavedCursor ==
    ResumedInsideEpoch =>
        dr.run["part"].losses[1].batch
            = get_batch(dr.saved.tr_iter.data, dr.saved.tr_iter.bptt,
                        dr.saved.tr_iter.ext_len, dr.saved.tr_iter.offset)

----------------------------------------------------------------------------
(* the multi-file batcher with shuffle on *)

\* the batchers built with shuffle on
Shuffling == IF mf = Off THEN {}
             ELSE {b \in Batchers : mf.it[b].pc \in {"new", "iter_AssertionError", "yield",
                                                     "done", "RuntimeError"}
                                    /\ mf.it[b].shuffle}

\* C37: a multi-file batcher with shuffle on, when iterated, ends in the
\* AssertionError of its first lines: it has read no file and yielded no
\* batch, and file_offset and stream_offsets are as the constructor set
\* them; and the batcher get_iterator builds for the training split of an
\* lm1b corpus has shuffle on.
C37_ShuffleOnNeverYields ==
    /\ \A b \in Shuffling :
          /\ mf.it[b].pc \in {"new", "iter_AssertionError"}
          /\ mf.it[b].out = <<>>
          /\ mf.it[b].file_offset = 0
          /\ mf.it[b].stream_offsets = [batch_pos \in 1..mf.it[b].bsz |-> 0]
          /\ DOMAIN mf.it[b] = DOMAIN LMMultiFileIterator_init(<<>>, 1, 1, 0, TRUE)
    /\ \A n \in 0..MaxCorpusFiles, bsz \in 1..MaxBsz, bptt \in 1..MaxBptt,
          ext_len \in ExtLenArgs :
          LET it == get_iterator_batcher(CachedCorpus("lm1b", n, 0), bsz, bptt, ext_len)
          IN  IF it.pc = "new" THEN it.shuffle ELSE it.pc = "AssertionError"

\* two files of a batcher with shuffle on have changed places and the
\* iteration has failed
C37_Witness ==
    /\ mf # Off
    /\ mf.it["orig"].pc = "iter_AssertionError"
    /\ Len(mf.it["orig"].paths) = 2
    /\ mf.it["orig"].paths # mf.args.paths

====
